---------------------------- MODULE Spec2Model ----------------------------
(***************************************************************************)
(* Model of the project dashboard (kiko9987/itglobal).                     *)
(*                                                                         *)
(*  - src/dashboard/app.py: load_data, the project-code helpers and the    *)
(*    auto-create request with its retrying, lock-protected allocator      *)
(*    (specifications Spec and SpecOne).                                   *)
(*  - src/backup_current/dashboard/app.py: the polling thread, the socket  *)
(*    registry and the auto-create request of the earlier server           *)
(*    (specification SpecBackup).                                          *)
(*  - the pure code helpers applied to bounded snapshots (SpecFn).         *)
(*                                                                         *)
(* Strings are sequences of one-character strings, so that the regular     *)
(* expressions, str.strip, str.upper, int() and the {:04d} format are      *)
(* computed character by character.  Korean names are transliterated       *)
(* syllable by syllable (one syllable = one character).                    *)
(***************************************************************************)
EXTENDS Integers, Sequences, FiniteSets, TLC

(***************************************************************************)
(* Characters                                                              *)
(***************************************************************************)
UPPER == <<"A","B","C","D","E","F","G","H","I","J","K","L","M",
           "N","O","P","Q","R","S","T","U","V","W","X","Y","Z">>
LOWER == <<"a","b","c","d","e","f","g","h","i","j","k","l","m",
           "n","o","p","q","r","s","t","u","v","w","x","y","z">>
DIGITS == <<"0","1","2","3","4","5","6","7","8","9">>

Range(s) == { s[i] : i \in DOMAIN s }
IndexOf(s, c) == CHOOSE i \in DOMAIN s : s[i] = c

UpperSet == Range(UPPER)
LowerSet == Range(LOWER)
DigitSet == Range(DIGITS)
IsUpper(c) == c \in UpperSet
IsDigit(c) == c \in DigitSet
IsSpace(c) == c = " "
DigitVal(c) == IndexOf(DIGITS, c) - 1

\* str.upper(), one character
UpperChar(c) == IF c \in LowerSet THEN UPPER[IndexOf(LOWER, c)] ELSE c
\* str.lower(), one character, and str.lower()
LowerChar(c) == IF c \in UpperSet THEN LOWER[IndexOf(UPPER, c)] ELSE c
StrLower(s) == [i \in DOMAIN s |-> LowerChar(s[i])]
\* str.upper()
StrUpper(s) == [i \in DOMAIN s |-> UpperChar(s[i])]

\* str.strip(): leading and trailing whitespace removed
RECURSIVE LStrip(_)
LStrip(s) == IF s # <<>> /\ IsSpace(Head(s)) THEN LStrip(Tail(s)) ELSE s
RECURSIVE RStrip(_)
RStrip(s) ==
  IF s # <<>> /\ IsSpace(s[Len(s)]) THEN RStrip(SubSeq(s, 1, Len(s) - 1)) ELSE s
Strip(s) == RStrip(LStrip(s))

\* int() of a string of decimal digits
RECURSIVE ParseInt(_)
ParseInt(ds) ==
  IF ds = <<>> THEN 0
  ELSE 10 * ParseInt(SubSeq(ds, 1, Len(ds) - 1)) + DigitVal(ds[Len(ds)])

\* str(n) for n >= 0
RECURSIVE IntToStr(_)
IntToStr(n) ==
  IF n < 10 THEN <<DIGITS[n + 1]>>
  ELSE IntToStr(n \div 10) \o <<DIGITS[(n % 10) + 1]>>

\* f"{num:04d}": zero-padded to a width of at least four
RECURSIVE ZeroPad(_, _)
ZeroPad(s, w) == IF Len(s) >= w THEN s ELSE ZeroPad(<<"0">> \o s, w)
Format04d(num) == ZeroPad(IntToStr(num), 4)

(***************************************************************************)
(* The two regular expressions of the code helpers                         *)
(***************************************************************************)
\* re.match(r'[A-Z](\d{4})-', code): anchored at the start only
MatchPrefixPattern(code) ==
  /\ Len(code) >= 6
  /\ IsUpper(code[1])
  /\ \A i \in 2..5 : IsDigit(code[i])
  /\ code[6] = "-"

\* re.match(r'[A-Z]\d{4}-([A-Z]+)$', code): the whole string
MatchFullPattern(code) ==
  /\ MatchPrefixPattern(code)
  /\ Len(code) >= 7
  /\ \A i \in 7..Len(code) : IsUpper(code[i])

\* Python's None where an int is expected
None == -1

\* a variant that takes the four digits whatever follows them
_extract_number_no_hyphen(code) ==
  IF Len(code) >= 5 /\ IsUpper(code[1]) /\ (\A i \in 2..5 : IsDigit(code[i]))
  THEN ParseInt(SubSeq(code, 2, 5)) ELSE None

_extract_number(code) ==
  IF MatchPrefixPattern(code) THEN ParseInt(SubSeq(code, 2, 5)) ELSE None

\* None is the empty string here: [A-Z]+ never matches empty, and the callers
\* only test the result for truth
_suffix_from_code(code) ==
  IF MatchFullPattern(code) THEN SubSeq(code, 7, Len(code)) ELSE <<>>


(***************************************************************************)
(* State                                                                   *)
(***************************************************************************)
VARIABLES
  _project_config,  \* app.py:50 _project_config (backup app.py:33 _creds)
  sheet,            \* the rows of the Google sheet (the external data source)
  setup,            \* the environment: which requests arrive, what users type
  fn_df,            \* SpecFn: the snapshot handed to the helpers
  fn_company,       \* SpecFn: the company argument
  fn_owner,         \* SpecFn: the owner argument
  fn_out,           \* SpecFn: what _auto_project_code returned or raised
  fn_num,           \* SpecFn: what _next_running_number returned
  fn_other,         \* SpecHash: a second snapshot
  fn_hash,          \* SpecHash: what the calls of _df_hash returned, in order
  au_environ,       \* SpecAuth: os.environ, as far as auth.py reads it
  au_headers,       \* SpecAuth: the headers of the request
  au_out,           \* SpecAuth: what get_user_from_headers returned
  excel,            \* the local Excel file load_data falls back to (None: unreadable)
  current_data,     \* app.py:34 current_data
  fetchFails,       \* how many fetches of the sheet have raised so far
  lockAttr,         \* _safe_next_running_number_with_retry._lock: 0 while unset
  lockOwner,        \* for each RLock created, the thread holding it (0: free)
  pc,               \* where each request thread stands
  req,              \* each thread's request body
  attempt,          \* the loop variable of the retry loop
  myLock,           \* the lock object the with statement evaluated
  dfOf,             \* df: the frame the thread's current attempt loaded
  codeOf,           \* code: the code the allocator gave the thread
  outcome,          \* how the current attempt leaves the with block
  result,           \* the response of the request
  environ,          \* os.environ, as far as the poller's analysis reads it
  _cache_df,        \* backup app.py:49 _cache_df
  _cache_hash,      \* backup app.py:50 _cache_hash
  _clients,         \* backup app.py:51 _clients (its keys)
  gsFails,          \* how many gs.fetch_dataframe() calls have raised so far
  socket,           \* each connection: "closed", or "open" once connected
  authed,           \* history: the headers of the connection's latest auth event
  inbox,            \* the last projects:update each connection was sent
  ppc,              \* where the poller thread stands ("off" before boot)
  p_df,             \* poller: df of the current cycle
  p_h,              \* poller: h of the current cycle
  p_todo,           \* poller: list(_clients.keys()) still to be sent to
  cycle,            \* what the current poll cycle has done so far
  prev,             \* what the poll cycle before it did
  bpc,              \* backup add_project_auto: where each request stands
  breq,             \* backup add_project_auto: payload
  bcode,            \* backup add_project_auto: code
  bresult,          \* backup add_project_auto: the response
  bafter,           \* history: the requests that had answered ok when each arrived
  sub_df,           \* sock_subscribe: df of the handler running for each sid
  clock,            \* time.time(), in seconds
  ticks,            \* how often the clock has advanced
  suppress_minutes, \* notification_system.py:8 self.suppress_minutes
  _recent,          \* notification_system.py:9 self._recent
  npc,              \* _should_send: where each caller stands
  nkey,             \* _should_send: key
  n_now,            \* _should_send: now
  n_last,           \* _should_send: last
  nlog              \* the _should_send calls that have returned, in order

(***************************************************************************)
(* Data frames: the columns present and the rows in order.  A row maps     *)
(* the three columns the code helpers read to their cell strings.          *)
(***************************************************************************)
ColCode == "code"     \* '프로젝트 코드'
ColComp == "comp"     \* '사업자'
ColOwner == "owner"   \* '담당자'
AllCols == {ColCode, ColComp, ColOwner}
\* the header of the company column after a user of the sheet has renamed
\* it ('사업자명'); the cells below it are the same cells
ColRenamed == "comp_renamed"
CellOf(c) == IF c = ColRenamed THEN ColComp ELSE c

\* str(row.get(col, '')) on a frame with or without the column
Cell(df, row, col) == IF col \in df.columns THEN row[col] ELSE <<>>

\* the empty dict
EmptyMap == [k \in {} |-> <<>>]
\* m.get(k): None (the empty string here) when the key is absent
Get(m, k) == IF k \in DOMAIN m THEN m[k] ELSE <<>>
\* for k, v in d.items(): m.setdefault(k, v)
SetDefaults(m, d) ==
  [k \in (DOMAIN m) \cup (DOMAIN d) |-> IF k \in DOMAIN m THEN m[k] ELSE d[k]]

\* the loop of _build_company_prefix_map over rows i..Len(rows)
RECURSIVE LearnPrefixes(_, _, _)
LearnPrefixes(df, i, m) ==
  IF i > Len(df.rows) THEN m
  ELSE LET code == Cell(df, df.rows[i], ColCode)
           comp == Strip(Cell(df, df.rows[i], ColComp))
       IN  IF comp # <<>> /\ MatchPrefixPattern(code) /\ comp \notin DOMAIN m
           THEN LearnPrefixes(df, i + 1,
                              [k \in (DOMAIN m) \cup {comp} |->
                                 IF k = comp THEN <<code[1]>> ELSE m[k]])
           ELSE LearnPrefixes(df, i + 1, m)

\* a variant of the loop in which a later row of a company replaces the
\* prefix an earlier row gave it
RECURSIVE LearnPrefixes_last_wins(_, _, _)
LearnPrefixes_last_wins(df, i, m) ==
  IF i > Len(df.rows) THEN m
  ELSE LET code == Cell(df, df.rows[i], ColCode)
           comp == Strip(Cell(df, df.rows[i], ColComp))
       IN  IF comp # <<>> /\ MatchPrefixPattern(code)
           THEN LearnPrefixes_last_wins(df, i + 1,
                                        [k \in (DOMAIN m) \cup {comp} |->
                                           IF k = comp THEN <<code[1]>> ELSE m[k]])
           ELSE LearnPrefixes_last_wins(df, i + 1, m)

\* a variant that lets the configured prefixes replace the learned ones
_build_company_prefix_map_override_first(df) ==
  LET learned == IF ColCode \in df.columns /\ ColComp \in df.columns
                 THEN LearnPrefixes(df, 1, EmptyMap)
                 ELSE EmptyMap
  IN  SetDefaults(_project_config.company_prefix_map, learned)

\* a variant built on the last-wins loop
_build_company_prefix_map_last_wins(df) ==
  LET learned == IF ColCode \in df.columns /\ ColComp \in df.columns
                 THEN LearnPrefixes_last_wins(df, 1, EmptyMap)
                 ELSE EmptyMap
  IN  SetDefaults(learned, _project_config.company_prefix_map)

_build_company_prefix_map(df) ==
  LET learned == IF ColCode \in df.columns /\ ColComp \in df.columns
                 THEN LearnPrefixes(df, 1, EmptyMap)
                 ELSE EmptyMap
  IN  SetDefaults(learned, _project_config.company_prefix_map)

\* grouped[name]: the suffixes of the owner's codes, in row order
RECURSIVE GroupSuffixes(_, _, _)
GroupSuffixes(df, i, name) ==
  IF i > Len(df.rows) THEN <<>>
  ELSE LET n == Strip(Cell(df, df.rows[i], ColOwner))
           suf == _suffix_from_code(Strip(Cell(df, df.rows[i], ColCode)))
       IN  (IF n = name /\ n # <<>> /\ suf # <<>> THEN <<suf>> ELSE <<>>)
             \o GroupSuffixes(df, i + 1, name)

Count(arr, e) == Cardinality({i \in DOMAIN arr : arr[i] = e})
\* Counter(arr).most_common(1)[0][0]: the largest count, the element counted
\* first among equals
MostCommon(arr) ==
  LET best == CHOOSE i \in DOMAIN arr :
                /\ \A j \in DOMAIN arr : Count(arr, arr[j]) <= Count(arr, arr[i])
                /\ \A j \in 1..(i - 1) : Count(arr, arr[j]) < Count(arr, arr[i])
  IN  arr[best]

\* a variant in which the learned suffixes come first and the configured
\* ones fill in
_build_owner_suffix_map_learned_first(df) ==
  LET base == [k \in DOMAIN _project_config.owner_suffix_map |->
                 StrUpper(_project_config.owner_suffix_map[k])]
      names == IF ColCode \in df.columns /\ ColOwner \in df.columns
               THEN { n \in { Strip(Cell(df, df.rows[i], ColOwner)) : i \in DOMAIN df.rows } :
                        GroupSuffixes(df, 1, n) # <<>> }
               ELSE {}
      learned == [n \in names |-> MostCommon(GroupSuffixes(df, 1, n))]
  IN  SetDefaults(learned, base)

_build_owner_suffix_map(df) ==
  LET base == [k \in DOMAIN _project_config.owner_suffix_map |->
                 StrUpper(_project_config.owner_suffix_map[k])]
      names == IF ColCode \in df.columns /\ ColOwner \in df.columns
               THEN { n \in { Strip(Cell(df, df.rows[i], ColOwner)) : i \in DOMAIN df.rows } :
                        GroupSuffixes(df, 1, n) # <<>> }
               ELSE {}
      learned == [n \in names |-> MostCommon(GroupSuffixes(df, 1, n))]
  IN  SetDefaults(base, learned)

\* nums of _next_running_number
RECURSIVE Nums(_, _)
Nums(df, i) ==
  IF i > Len(df.rows) THEN {}
  ELSE LET n == _extract_number(Cell(df, df.rows[i], ColCode))
       IN  (IF n # None THEN {n} ELSE {}) \cup Nums(df, i + 1)

Max(S) == CHOOSE x \in S : \A y \in S : y <= x

\* a variant that numbers by the count of numbered codes
_next_running_number_by_count(df) ==
  LET nums == IF ColCode \in df.columns THEN Nums(df, 1) ELSE {}
  IN  Cardinality(nums) + 1

_next_running_number(df) ==
  LET nums == IF ColCode \in df.columns THEN Nums(df, 1) ELSE {}
  IN  IF nums # {} THEN Max(nums) + 1 ELSE 1

\* a variant that raises only when both the prefix and the suffix are missing
_auto_project_code_both_missing(df, company, owner) ==
  LET prefix == Get(_build_company_prefix_map(df), Strip(company))
      suffix == Get(_build_owner_suffix_map(df), Strip(owner))
  IN  IF prefix = <<>> /\ suffix = <<>>
      THEN [exc |-> "ValueError", code |-> <<>>]
      ELSE [exc |-> "",
            code |-> prefix \o Format04d(_next_running_number(df)) \o <<"-">> \o suffix]

\* What _auto_project_code does: exc = "ValueError" when it raises
_auto_project_code(df, company, owner) ==
  LET prefix == Get(_build_company_prefix_map(df), Strip(company))
      suffix == Get(_build_owner_suffix_map(df), Strip(owner))
  IN  IF prefix = <<>> \/ suffix = <<>>
      THEN [exc |-> "ValueError", code |-> <<>>]
      ELSE [exc |-> "",
            code |-> prefix \o Format04d(_next_running_number(df)) \o <<"-">> \o suffix]

(***************************************************************************)
(* Bounded data: names, codes, rows, configurations                        *)
(***************************************************************************)
Glob == <<"geul", "ro", "beol">>          \* 글로벌
Plant == <<"peul", "ren", "teu">>         \* 플렌트
Neo == <<"ne", "o">>                      \* a company with no well-formed code
BakYongGu == <<"bak", "yong", "gu">>      \* 박용구
BakJeongU == <<"bak", "jeong", "u">>      \* 박정우
Kim == <<"gim">>                          \* an owner with no code
GlobGroup == <<"geul", "ro", "beol", "geu", "rup">>   \* 글로벌그룹
GangSeongHwan == <<"gang", "seong", "hwan">>          \* 강성환

G0001_YG == <<"G","0","0","0","1","-","Y","G">>
P0002_JW == <<"P","0","0","0","2","-","J","W">>
G0003_YG == <<"G","0","0","0","3","-","Y","G">>
R0003_SH == <<"R","0","0","0","3","-","S","H">>
G0007_ == <<"G","0","0","0","7","-">>     \* prefix pattern only: no suffix
G9999_YG == <<"G","9","9","9","9","-","Y","G">>
G10000_YG == <<"G","1","0","0","0","0","-","Y","G">>

Row(code, comp, owner) == [code |-> code, comp |-> comp, owner |-> owner]

\* None where a DataFrame is expected
NoneDf == [none |-> TRUE, columns |-> {}, rows |-> <<>>]
Frame(cols, rows) == [none |-> FALSE, columns |-> cols, rows |-> rows]

\* project_config.json is not part of the sources: three configurations
ConfigPool ==
  { [company_prefix_map |-> EmptyMap, owner_suffix_map |-> EmptyMap],
    \* overrides that conflict with what the rows teach
    [company_prefix_map |-> (Glob :> <<"X">>),
     owner_suffix_map |-> (BakJeongU :> <<"y", "g">>)],
    \* an override for a company no well-formed code teaches, for an owner
    \* with codes and for an owner without
    [company_prefix_map |-> (Neo :> <<"N">>),
     owner_suffix_map |-> (BakYongGu :> <<"j", "w">>) @@ (Kim :> <<"k", "h">>)] }

\* sequences over S of length at most n
RECURSIVE SeqsUpTo(_, _)
SeqsUpTo(S, n) ==
  IF n = 0 THEN {<<>>}
  ELSE LET shorter == SeqsUpTo(S, n - 1)
       IN  shorter \cup { Append(q, x) : q \in { r \in shorter : Len(r) = n - 1 }, x \in S }

(***************************************************************************)
(* SpecFn: the code helpers applied to every bounded snapshot              *)
(***************************************************************************)
MaxFnRows == 3

FnRowPool ==
  { Row(G0001_YG, Glob, BakYongGu),
    Row(P0002_JW, Neo, BakJeongU),
    Row(P0002_JW, Glob, BakYongGu),
    Row(G0007_, Neo, BakYongGu),
    Row(G10000_YG, Plant, BakJeongU),
    Row(<<>>, Glob, BakJeongU),
    \* the largest four-digit number, in cells with surrounding blanks
    Row(G9999_YG, <<" ">> \o Glob, BakYongGu \o <<" ">>) }

FnColumnSets == { AllCols, AllCols \ {ColCode}, AllCols \ {ColComp}, AllCols \ {ColOwner} }
FnCompanies == { Glob, Neo, Glob \o <<" ">> }
FnOwners == { BakYongGu, Kim, BakJeongU }

\* the snapshots: up to MaxFnRows rows with all three columns, and one row
\* fewer where a column is lacking
FnFrames ==
  { Frame(AllCols, r) : r \in SeqsUpTo(FnRowPool, MaxFnRows) }
    \cup { Frame(c, r) : c \in FnColumnSets \ {AllCols},
                         r \in SeqsUpTo(FnRowPool, MaxFnRows - 1) }

Pending == [exc |-> "pending", code |-> <<>>]

(***************************************************************************)
(* src/dashboard/utils/google_sheets.py and load_data                      *)
(***************************************************************************)
\* cell.astype(str).str.strip() != '' for the code column
RECURSIVE DropEmptyCodes(_)
DropEmptyCodes(rows) ==
  IF rows = <<>> THEN <<>>
  ELSE (IF Strip(Head(rows).code) # <<>> THEN <<Head(rows)>> ELSE <<>>)
         \o DropEmptyCodes(Tail(rows))

\* GoogleSheetsManager._preprocess_data, as far as the three columns go
_preprocess_data(d) ==
  IF ColCode \in d.columns THEN Frame(d.columns, DropEmptyCodes(d.rows)) ELSE d

\* GoogleSheetsManager.get_sheet_data when the request to the sheet succeeds
get_sheet_data ==
  IF sheet.rows = <<>> THEN Frame(sheet.columns, <<>>) ELSE _preprocess_data(sheet)

\* fetches of the sheet that may raise in one run
MaxFetchFail == 1

\* load_data(): what it returns (ret), what it leaves in current_data (cur),
\* and whether the fetch raised (failed).  A fetch that raises falls back to
\* the local Excel file.
LoadResults ==
  { LET d == get_sheet_data
    IN  IF d.rows = <<>>
        THEN [ret |-> NoneDf, cur |-> current_data, failed |-> FALSE]
        ELSE [ret |-> d, cur |-> d, failed |-> FALSE] }
  \cup
  { r \in { IF excel.none
            THEN [ret |-> NoneDf, cur |-> current_data, failed |-> TRUE]
            ELSE [ret |-> excel, cur |-> excel, failed |-> TRUE] } :
      fetchFails < setup.fails }

\* df['프로젝트 코드'].astype(str).tolist(), and [] without the column
existing_codes(d) ==
  IF ColCode \in d.columns THEN { d.rows[i].code : i \in DOMAIN d.rows } ELSE {}

(***************************************************************************)
(* Spec: the auto-create request of src/dashboard/app.py                   *)
(***************************************************************************)
Threads == {1, 2}
max_retries == 5

\* request bodies: company, owner, and whether '현장 주소' is filled in
ReqPool ==
  { [company |-> Glob, owner |-> BakYongGu, addr |-> TRUE],
    [company |-> Neo, owner |-> BakYongGu, addr |-> TRUE],
    [company |-> Glob, owner |-> Kim, addr |-> FALSE],
    [company |-> <<" ">>, owner |-> BakYongGu, addr |-> TRUE] }
NoReq == [company |-> <<>>, owner |-> <<>>, addr |-> FALSE]

\* rows of the sheet in one run
MaxRows == 2

\* the environment of a run: the request threads that are started, the rows
\* users of the spreadsheet may add, the request bodies that may arrive, and
\* how many fetches may raise
NoSetup == [threads |-> {}, rows |-> {}, reqs |-> {}, fails |-> 0]

\* Spec: two concurrent requests for the same company and owner
ConcurrentSetup ==
  [threads |-> Threads,
   rows |-> { Row(G0001_YG, Glob, BakYongGu) },
   reqs |-> { [company |-> Glob, owner |-> BakYongGu, addr |-> TRUE] },
   fails |-> MaxFetchFail]

\* SpecOne: one request at a time, over richer data
SingleSetup ==
  [threads |-> {1},
   rows |-> { Row(G0001_YG, Glob, BakYongGu),
              Row(G9999_YG, Glob, BakYongGu),
              Row(G10000_YG, Glob, BakYongGu),
              Row(G0007_, Neo, BakJeongU) },
   reqs |-> ReqPool,
   fails |-> MaxFetchFail]

NoOutcome == [how |-> "", error |-> "", code |-> <<>>]
NoResult == [status |-> 0, error |-> ""]
Response(st, e) == [status |-> st, error |-> e]

allocVars == <<excel, current_data, fetchFails, lockAttr, lockOwner, pc, req,
               attempt, myLock, dfOf, codeOf, outcome, result>>
auVars == <<au_environ, au_headers, au_out>>
fnVars == <<fn_df, fn_company, fn_owner, fn_out, fn_num, fn_other, fn_hash, auVars>>
ntVars == <<clock, ticks, suppress_minutes, _recent, npc, nkey, n_now, n_last, nlog>>
bkVars == <<environ, _cache_df, _cache_hash, _clients, gsFails, socket, authed, inbox, ppc,
            p_df, p_h, p_todo, cycle, prev, bpc, breq, bcode, bresult, bafter, sub_df, ntVars>>
vars == <<_project_config, sheet, setup, fnVars, allocVars, bkVars>>

\* --- the earlier server, src/backup_current/dashboard/app.py ---
Sids == {1, 2}

\* pd.DataFrame(), and DataFrame.empty
EmptyFrame == Frame({}, <<>>)
IsEmpty(df) == df.rows = <<>> \/ df.columns = {}

\* the order of the columns in the sheet's header row
ColOrder == <<ColCode, ColComp, ColRenamed, ColOwner>>
\* one element of df.astype(str).fillna("").itertuples(index=False)
RowTuple(df, r) ==
  LET present == SelectSeq(ColOrder, LAMBDA c : c \in df.columns)
  IN  [i \in DOMAIN present |-> r[CellOf(present[i])]]

\* _cache_hash = None
NoHash == <<"None">>
\* a variant that hashes the rows as a set
_df_hash_unordered(df) ==
  IF df.none \/ IsEmpty(df)
  THEN <<"empty">>
  ELSE <<"hash", { RowTuple(df, df.rows[i]) : i \in DOMAIN df.rows }>>

\* _df_hash: "empty", or the hash of the tuple of row tuples.  Python's hash
\* is kept symbolic: equal tuples give equal values, different tuples are
\* taken to give different values.
_df_hash(df) ==
  IF df.none \/ IsEmpty(df)
  THEN <<"empty">>
  ELSE <<"hash", [i \in DOMAIN df.rows |-> RowTuple(df, df.rows[i])]>>

\* fetch_dataframe without a service (lines 34-45): the built-in rows, of
\* which the code, company and owner columns are kept
dummy_data ==
  Frame(AllCols, <<Row(G0001_YG, Glob, BakYongGu), Row(P0002_JW, Plant, BakJeongU),
                   Row(R0003_SH, GlobGroup, GangSeongHwan)>>)

\* GoogleSheetsManager.fetch_dataframe when the request to the sheet succeeds:
\* the header row names the columns, the rest are the rows; without a service
\* (_build_service returned None) the built-in rows
fetch_dataframe ==
  IF setup.service THEN Frame(sheet.columns, sheet.rows) ELSE dummy_data

\* int(s) raises ValueError
IntRaises(s) == s = <<>> \/ \E i \in DOMAIN s : ~IsDigit(s[i])
\* values of OVERDUE_CONFIRM_DAYS: the default, and one that is no number
EnvPool == { [OVERDUE_CONFIRM_DAYS |-> <<"2">>],
             [OVERDUE_CONFIRM_DAYS |-> <<"t", "w", "o">>] }

\* what one poll cycle has done: whether its fetch returned and what, whether
\* the hash matched, whether it replaced the store, the sids registered when
\* it went on from there, whether it reached the emit loop, and the sids
\* whose emit was tried / returned
NoCycle == [fetched |-> FALSE, df |-> NoneDf, matched |-> FALSE, replaced |-> FALSE,
            bcast |-> FALSE, targets |-> {}, tried |-> {}, sent |-> {}]

\* what is kept of the cycle before the current one
Summary(c) == [fetched |-> c.fetched, df |-> c.df, matched |-> c.matched, bcast |-> c.bcast]

\* --- NotificationSystem, src/backup_current/dashboard/utils/notification_system.py ---
\* time.time() when the server starts, in seconds since the epoch
T0 == 1700000000
\* the suppression keys: "missing:<code>:<fields>"
KeyA == "missing:P0002-JW:addr"
KeyB == "missing:G0001-YG:addr"
Keys == {KeyA, KeyB}
\* the empty _recent
NoEntries == [k \in {} |-> 0]
\* NOTIFY_SUPPRESS_MINUTES: the default, and one minute
SuppressPool == {120, 1}

\* the notifier after __init__, with no call running
NtIdle ==
  /\ clock = T0
  /\ ticks = 0
  /\ suppress_minutes = 120
  /\ _recent = NoEntries
  /\ npc = [t \in Threads |-> "idle"]
  /\ nkey = [t \in Threads |-> ""]
  /\ n_now = [t \in Threads |-> 0]
  /\ n_last = [t \in Threads |-> 0]
  /\ nlog = <<>>

\* no X-API-Key and no X-User-Email; what get_user_from_headers has not
\* returned yet
NoHeaders == [key |-> <<>>, email |-> <<>>]
NoPair == [identity |-> <<>>, admin |-> FALSE, resolved |-> FALSE]

\* the module state of the earlier server before boot()
BkIdle ==
  /\ NtIdle
  /\ environ = [OVERDUE_CONFIRM_DAYS |-> <<"2">>]
  /\ _cache_df = EmptyFrame
  /\ _cache_hash = NoHash
  /\ _clients = <<>>
  /\ gsFails = 0
  /\ socket = [s \in Sids |-> "closed"]
  /\ authed = [s \in Sids |-> NoHeaders]
  /\ inbox = [s \in Sids |-> NoneDf]
  /\ sub_df = [s \in Sids |-> NoneDf]
  /\ ppc = "off"
  /\ p_df = NoneDf
  /\ p_h = NoHash
  /\ p_todo = <<>>
  /\ cycle = NoCycle
  /\ prev = Summary(NoCycle)
  /\ bpc = [t \in Threads |-> "idle"]
  /\ breq = [t \in Threads |-> NoReq]
  /\ bcode = [t \in Threads |-> <<>>]
  /\ bresult = [t \in Threads |-> NoResult]
  /\ bafter = [t \in Threads |-> {}]

\* auth.py with no request resolved
AuIdle ==
  /\ au_environ = [API_KEY |-> <<>>, ADMIN_EMAILS |-> <<>>]
  /\ au_headers = NoHeaders
  /\ au_out = NoPair

FnIdle ==
  /\ AuIdle
  /\ fn_df = NoneDf /\ fn_company = <<>> /\ fn_owner = <<>>
  /\ fn_out = Pending /\ fn_num = None
  /\ fn_other = NoneDf /\ fn_hash = <<>>

AllocIdle ==
  /\ excel = NoneDf /\ current_data = NoneDf /\ fetchFails = 0
  /\ lockAttr = 0
  /\ lockOwner = [l \in Threads |-> 0]
  /\ pc = [t \in Threads |-> "idle"]
  /\ req = [t \in Threads |-> NoReq]
  /\ attempt = [t \in Threads |-> 0]
  /\ myLock = [t \in Threads |-> 0]
  /\ dfOf = [t \in Threads |-> NoneDf]
  /\ codeOf = [t \in Threads |-> <<>>]
  /\ outcome = [t \in Threads |-> NoOutcome]
  /\ result = [t \in Threads |-> NoResult]

\* the state of app.py when the server has started and no request has arrived
AllocInit(env, configs) ==
  /\ setup = env
  /\ _project_config \in configs
  /\ sheet = Frame(AllCols, <<>>)
  /\ FnIdle
  /\ excel \in { NoneDf, Frame(AllCols, <<Row(G0001_YG, Glob, BakYongGu)>>) }
  /\ current_data = NoneDf
  /\ fetchFails = 0
  /\ lockAttr = 0
  /\ lockOwner = [l \in Threads |-> 0]
  /\ pc = [t \in Threads |-> "idle"]
  /\ req = [t \in Threads |-> NoReq]
  /\ attempt = [t \in Threads |-> 0]
  /\ myLock = [t \in Threads |-> 0]
  /\ dfOf = [t \in Threads |-> NoneDf]
  /\ codeOf = [t \in Threads |-> <<>>]
  /\ outcome = [t \in Threads |-> NoOutcome]
  /\ result = [t \in Threads |-> NoResult]
  /\ BkIdle

Init ==
  AllocInit(ConcurrentSetup,
            {[company_prefix_map |-> EmptyMap, owner_suffix_map |-> EmptyMap]})
InitOne == AllocInit(SingleSetup, ConfigPool)

\* a user of the spreadsheet adds a row
SheetEdit ==
  /\ Len(sheet.rows) < MaxRows
  /\ \E r \in setup.rows : sheet' = Frame(sheet.columns, Append(sheet.rows, r))
  /\ UNCHANGED <<_project_config, setup, fnVars, allocVars, ntVars, environ, sub_df, _cache_df,
                 _cache_hash, _clients, gsFails, socket, authed, inbox, ppc, p_df,
                 p_h,
                 p_todo, cycle, prev, bpc, breq, bcode, bresult, bafter>>

Finish(t, resp) ==
  /\ pc' = [pc EXCEPT ![t] = "done"]
  /\ result' = [result EXCEPT ![t] = resp]

\* add_project_auto, lines 411-417: the request arrives
Start(t) ==
  /\ t \in setup.threads
  /\ pc[t] = "idle"
  /\ \E r \in setup.reqs :
       /\ req' = [req EXCEPT ![t] = [r EXCEPT !.company = Strip(r.company),
                                              !.owner = Strip(r.owner)]]
       /\ IF Strip(r.company) = <<>> \/ Strip(r.owner) = <<>>
          THEN Finish(t, Response(400, "Required"))
          ELSE /\ pc' = [pc EXCEPT ![t] = "cache"]
               /\ UNCHANGED result
  /\ UNCHANGED <<_project_config, sheet, setup, fnVars, bkVars, excel, current_data, fetchFails,
                 lockAttr, lockOwner, attempt, myLock, dfOf, codeOf, outcome>>

\* add_project_auto, lines 420-422
CacheCheck(t) ==
  /\ pc[t] = "cache"
  /\ IF ~current_data.none
     THEN /\ pc' = [pc EXCEPT ![t] = "chk_lock"]
          /\ UNCHANGED <<current_data, fetchFails, result>>
     ELSE \E r \in LoadResults :
            /\ current_data' = r.cur
            /\ fetchFails' = fetchFails + (IF r.failed THEN 1 ELSE 0)
            /\ IF r.ret.none
               THEN Finish(t, Response(500, "LoadFailed"))
               ELSE /\ pc' = [pc EXCEPT ![t] = "chk_lock"]
                    /\ UNCHANGED result
  /\ UNCHANGED <<_project_config, sheet, setup, fnVars, bkVars, excel, lockAttr, lockOwner, req,
                 attempt, myLock, dfOf, codeOf, outcome>>

\* _safe_next_running_number_with_retry, line 160: hasattr(..., '_lock')
ChkLock(t) ==
  /\ pc[t] = "chk_lock"
  /\ pc' = [pc EXCEPT ![t] = IF lockAttr = 0 THEN "mk_lock" ELSE "with"]
  /\ attempt' = [attempt EXCEPT ![t] = 0]
  /\ UNCHANGED <<_project_config, sheet, setup, fnVars, bkVars, excel, current_data, fetchFails,
                 lockAttr, lockOwner, req, myLock, dfOf, codeOf, outcome, result>>

\* line 161: a new RLock is stored on the function (named after its creator)
MkLock(t) ==
  /\ pc[t] = "mk_lock"
  /\ lockAttr' = t
  /\ pc' = [pc EXCEPT ![t] = "with"]
  /\ UNCHANGED <<_project_config, sheet, setup, fnVars, bkVars, excel, current_data, fetchFails,
                 lockOwner, req, attempt, myLock, dfOf, codeOf, outcome, result>>

\* line 164: the with statement evaluates the attribute
WithLock(t) ==
  /\ pc[t] = "with"
  /\ myLock' = [myLock EXCEPT ![t] = lockAttr]
  /\ pc' = [pc EXCEPT ![t] = "acquire"]
  /\ UNCHANGED <<_project_config, sheet, setup, fnVars, bkVars, excel, current_data, fetchFails,
                 lockAttr, lockOwner, req, attempt, dfOf, codeOf, outcome, result>>

\* line 164: RLock.__enter__ blocks while another thread holds the lock
Acquire(t) ==
  /\ pc[t] = "acquire"
  /\ lockOwner[myLock[t]] \in {0, t}
  /\ lockOwner' = [lockOwner EXCEPT ![myLock[t]] = t]
  /\ pc' = [pc EXCEPT ![t] = "attempt"]
  /\ UNCHANGED <<_project_config, sheet, setup, fnVars, bkVars, excel, current_data, fetchFails,
                 lockAttr, req, attempt, myLock, dfOf, codeOf, outcome, result>>

\* a variant whose last attempt returns the colliding code
AttemptEnd_return_on_last(d, company, owner, n) ==
  LET last == (n = max_retries - 1)
      fail(e) == [how |-> IF last THEN "raise" ELSE "retry", error |-> e, code |-> <<>>]
      gen == _auto_project_code(d, company, owner)
  IN  IF d.none THEN fail("LoadFailed")
      ELSE IF gen.exc # "" THEN fail("MappingUnresolved")
      ELSE IF ColCode \in d.columns /\ gen.code \in existing_codes(d) /\ ~last
           THEN [how |-> "retry", error |-> "Collision", code |-> <<>>]
      ELSE [how |-> "return", error |-> "", code |-> gen.code]

\* How one attempt (lines 165-192) ends on the frame load_data returned:
\* [how |-> "return" | "retry" | "raise", error, code]
AttemptEnd(d, company, owner, n) ==
  LET last == (n = max_retries - 1)
      fail(e) == [how |-> IF last THEN "raise" ELSE "retry", error |-> e, code |-> <<>>]
      gen == _auto_project_code(d, company, owner)
  IN  IF d.none THEN fail("LoadFailed")
      ELSE IF gen.exc # "" THEN fail("MappingUnresolved")
      ELSE IF ColCode \in d.columns /\ gen.code \in existing_codes(d)
           THEN [how |-> IF last THEN "raise" ELSE "retry",
                 error |-> IF last THEN "AllocationExhausted" ELSE "Collision",
                 code |-> <<>>]
      ELSE [how |-> "return", error |-> "", code |-> gen.code]

\* lines 165-192, inside the with block: load, generate, look for a collision
Attempt(t) ==
  /\ pc[t] = "attempt"
  /\ \E r \in LoadResults :
       LET e == AttemptEnd(r.ret, req[t].company, req[t].owner, attempt[t])
       IN  /\ current_data' = r.cur
           /\ fetchFails' = fetchFails + (IF r.failed THEN 1 ELSE 0)
           /\ dfOf' = [dfOf EXCEPT ![t] = r.ret]
           /\ codeOf' = [codeOf EXCEPT ![t] = e.code]
           /\ outcome' = [outcome EXCEPT ![t] = e]
  /\ pc' = [pc EXCEPT ![t] = "release"]
  /\ UNCHANGED <<_project_config, sheet, setup, fnVars, bkVars, excel, lockAttr, lockOwner, req,
                 attempt, myLock, result>>

\* a variant that keeps the lock when the attempt ends with an error that is
\* raised to the caller
Release_held_on_raise(t) ==
  /\ pc[t] = "release"
  /\ lockOwner' = IF outcome[t].how = "raise" THEN lockOwner
                  ELSE [lockOwner EXCEPT ![myLock[t]] = 0]
  /\ dfOf' = [dfOf EXCEPT ![t] = NoneDf]
  /\ outcome' = [outcome EXCEPT ![t] = NoOutcome]
  /\ CASE outcome[t].how = "return" ->
            /\ pc' = [pc EXCEPT ![t] = "required"]
            /\ UNCHANGED <<attempt, result>>
       [] outcome[t].how = "retry" ->
            /\ pc' = [pc EXCEPT ![t] = "with"]
            /\ attempt' = [attempt EXCEPT ![t] = attempt[t] + 1]
            /\ UNCHANGED result
       [] OTHER ->
            /\ Finish(t, Response(400, outcome[t].error))
            /\ UNCHANGED attempt
  /\ UNCHANGED <<_project_config, sheet, setup, fnVars, bkVars, excel, current_data, fetchFails,
                 lockAttr, req, myLock, codeOf>>

\* the with block is left: the lock is released, then the loop goes on, the
\* code is returned (line 186) or the error reaches add_project_auto (line 428)
Release(t) ==
  /\ pc[t] = "release"
  /\ lockOwner' = [lockOwner EXCEPT ![myLock[t]] = 0]
  /\ dfOf' = [dfOf EXCEPT ![t] = NoneDf]
  /\ outcome' = [outcome EXCEPT ![t] = NoOutcome]
  /\ CASE outcome[t].how = "return" ->
            /\ pc' = [pc EXCEPT ![t] = "required"]
            /\ UNCHANGED <<attempt, result>>
       [] outcome[t].how = "retry" ->
            /\ pc' = [pc EXCEPT ![t] = "with"]
            /\ attempt' = [attempt EXCEPT ![t] = attempt[t] + 1]
            /\ UNCHANGED result
       [] OTHER ->
            /\ Finish(t, Response(400, outcome[t].error))
            /\ UNCHANGED attempt
  /\ UNCHANGED <<_project_config, sheet, setup, fnVars, bkVars, excel, current_data, fetchFails,
                 lockAttr, req, myLock, codeOf>>

\* add_project_auto, lines 430-438: required fields
Required(t) ==
  /\ pc[t] = "required"
  /\ IF ~req[t].addr
     THEN Finish(t, Response(400, "MissingFields"))
     ELSE /\ pc' = [pc EXCEPT ![t] = "final"]
          /\ UNCHANGED result
  /\ UNCHANGED <<_project_config, sheet, setup, fnVars, bkVars, excel, current_data, fetchFails,
                 lockAttr, lockOwner, req, attempt, myLock, dfOf, codeOf, outcome>>

\* lines 448-454: the duplicate check right before the append
FinalCheck(t) ==
  /\ pc[t] = "final"
  /\ \E r \in LoadResults :
       /\ current_data' = r.cur
       /\ fetchFails' = fetchFails + (IF r.failed THEN 1 ELSE 0)
       /\ IF ~r.ret.none /\ codeOf[t] \in existing_codes(r.ret)
          THEN Finish(t, Response(409, "Duplicate"))
          ELSE /\ pc' = [pc EXCEPT ![t] = "convert"]
               /\ UNCHANGED result
  /\ UNCHANGED <<_project_config, sheet, setup, fnVars, bkVars, excel, lockAttr, lockOwner, req,
                 attempt, myLock, dfOf, codeOf, outcome>>

\* line 456: convert_form_data_to_sheet_row calls manager.get_column_mapping(),
\* which google_sheets.py defines inside test_google_sheets_connection and not
\* in the class (as it does append_row): AttributeError, answered at line 473
Convert(t) ==
  /\ pc[t] = "convert"
  /\ Finish(t, Response(500, "AttributeError"))
  /\ UNCHANGED <<_project_config, sheet, setup, fnVars, bkVars, excel, current_data, fetchFails,
                 lockAttr, lockOwner, req, attempt, myLock, dfOf, codeOf, outcome>>

Next ==
  \/ SheetEdit
  \/ \E t \in Threads :
       \/ Start(t) \/ CacheCheck(t) \/ ChkLock(t) \/ MkLock(t) \/ WithLock(t)
       \/ Acquire(t) \/ Attempt(t) \/ Release(t) \/ Required(t)
       \/ FinalCheck(t) \/ Convert(t)

Spec == Init /\ [][Next]_vars
SpecOne == InitOne /\ [][Next]_vars

(***************************************************************************)
(* SpecFn                                                                  *)
(***************************************************************************)
FnInit ==
  /\ _project_config \in ConfigPool
  /\ sheet = Frame(AllCols, <<>>)
  /\ setup = NoSetup
  /\ fn_df \in FnFrames
  /\ fn_company = <<>>
  /\ fn_owner = <<>>
  /\ fn_out = Pending
  /\ fn_num = None
  /\ fn_other = NoneDf
  /\ fn_hash = <<>>
  /\ AuIdle
  /\ AllocIdle
  /\ BkIdle

\* the helpers are called on the snapshot, for a company and an owner
FnAllocate ==
  /\ fn_out = Pending
  /\ \E company \in FnCompanies, owner \in FnOwners :
       /\ fn_company' = company
       /\ fn_owner' = owner
       /\ fn_out' = _auto_project_code(fn_df, company, owner)
  /\ fn_num' = _next_running_number(fn_df)
  /\ UNCHANGED <<_project_config, sheet, setup, fn_df, fn_other, fn_hash, auVars,
                 allocVars, bkVars>>

FnNext == FnAllocate

SpecFn == FnInit /\ [][FnNext]_vars

(***************************************************************************)
(* SpecHash: _df_hash applied twice to each of two snapshots               *)
(***************************************************************************)
\* rows of a snapshot that is fingerprinted
MaxHashRows == 2
\* three rows, two of which differ in one cell
HashRowPool ==
  { Row(G0001_YG, Glob, BakYongGu),
    Row(G0001_YG, Glob, BakJeongU),
    Row(P0002_JW, Plant, BakJeongU) }
\* the snapshots: None, pd.DataFrame(), and frames with a header row of all
\* three columns or of two of them
HashFrames ==
  { NoneDf, EmptyFrame }
    \cup { Frame(c, r) : c \in {AllCols, AllCols \ {ColOwner}},
                         r \in SeqsUpTo(HashRowPool, MaxHashRows) }

HashInit ==
  /\ _project_config = [company_prefix_map |-> EmptyMap, owner_suffix_map |-> EmptyMap]
  /\ sheet = Frame(AllCols, <<>>)
  /\ setup = NoSetup
  /\ fn_df \in HashFrames
  /\ fn_other \in HashFrames
  /\ fn_company = <<>>
  /\ fn_owner = <<>>
  /\ fn_out = Pending
  /\ fn_num = None
  /\ fn_hash = <<>>
  /\ AuIdle
  /\ AllocIdle
  /\ BkIdle

\* _df_hash is called on both snapshots
Fingerprint ==
  /\ Len(fn_hash) < 2
  /\ fn_hash' = Append(fn_hash, [a |-> _df_hash(fn_df), b |-> _df_hash(fn_other)])
  /\ UNCHANGED <<_project_config, sheet, setup, fn_df, fn_company, fn_owner, fn_out,
                 fn_num, fn_other, auVars, allocVars, bkVars>>

HashNext == Fingerprint

SpecHash == HashInit /\ [][HashNext]_vars

(***************************************************************************)
(* SpecAuth: src/dashboard/utils/auth.py.  credentials.json is not part of *)
(* the sources: _load_creds() finds no file and returns {}.                *)
(***************************************************************************)
Secret12 == <<"s","e","c","r","e","t","1","2">>
Secret13 == <<"s","e","c","r","e","t","1","3">>
Short == <<"s","h","o","r","t">>
AdminAtX == <<"a","d","m","i","n","@","x">>
UserAtX == <<"u","s","e","r","@","x">>

\* API_KEY: unset, a key of eight characters (also with blanks around it),
\* and one that is too short
ApiKeyPool == { <<>>, Secret12, <<" ">> \o Secret12 \o <<" ">>, Short }
\* ADMIN_EMAILS split at the commas: unset, one admin, and a list with an
\* upper-case letter, blanks and an empty piece
AdminPool ==
  { <<>>,
    <<AdminAtX>>,
    << <<" ", "A">> \o Tail(AdminAtX), <<>>, <<" ">> >> }
\* X-API-Key: absent, right, right with a blank behind it, wrong, too short
HeaderKeyPool == { <<>>, Secret12, Secret12 \o <<" ">>, Secret13, Short }
\* X-User-Email: absent, blank, the admin (also capitalised and with blanks),
\* somebody else
HeaderEmailPool ==
  { <<>>, <<" ">>, AdminAtX, <<"A">> \o Tail(AdminAtX), <<" ">> \o AdminAtX \o <<" ">>,
    UserAtX }

AuthInit ==
  /\ _project_config = [company_prefix_map |-> EmptyMap, owner_suffix_map |-> EmptyMap]
  /\ sheet = Frame(AllCols, <<>>)
  /\ setup = NoSetup
  /\ fn_df = NoneDf /\ fn_company = <<>> /\ fn_owner = <<>>
  /\ fn_out = Pending /\ fn_num = None
  /\ fn_other = NoneDf /\ fn_hash = <<>>
  /\ au_environ \in [API_KEY : ApiKeyPool, ADMIN_EMAILS : AdminPool]
  /\ au_headers \in [key : HeaderKeyPool, email : HeaderEmailPool]
  /\ au_out = NoPair
  /\ AllocIdle
  /\ BkIdle

\* _get_api_key: the environment's key, else the (absent) file's
_get_api_key == Strip(au_environ.API_KEY)

\* _get_admins: the pieces stripped and lower-cased, the empty ones dropped
_get_admins ==
  { StrLower(Strip(au_environ.ADMIN_EMAILS[i])) :
      i \in { j \in DOMAIN au_environ.ADMIN_EMAILS : Strip(au_environ.ADMIN_EMAILS[j]) # <<>> } }

check_api_key(key) ==
  IF key = <<>> \/ Len(Strip(key)) < 8 THEN FALSE
  ELSE IF _get_api_key = <<>> \/ Len(_get_api_key) < 8 THEN FALSE
  ELSE Len(key) = Len(_get_api_key) /\ key = _get_api_key

is_admin(email) == StrLower(email) \in _get_admins

Pair(identity, admin) == [identity |-> identity, admin |-> admin, resolved |-> TRUE]

\* a variant that returns the e-mail whatever the key
get_user_from_headers_no_key_check(headers) ==
  LET user_email == Strip(headers.email)
      ok == check_api_key(headers.key)
      admin == IF ok /\ user_email # <<>> THEN is_admin(user_email) ELSE FALSE
  IN  Pair(user_email, admin)

get_user_from_headers(headers) ==
  LET user_email == Strip(headers.email)
      ok == check_api_key(headers.key)
      admin == IF ok /\ user_email # <<>> THEN is_admin(user_email) ELSE FALSE
  IN  IF ok THEN Pair(user_email, admin) ELSE Pair(<<>>, FALSE)

\* the request is resolved
Resolve ==
  /\ ~au_out.resolved
  /\ au_out' = get_user_from_headers(au_headers)
  /\ UNCHANGED <<_project_config, sheet, setup, fn_df, fn_company, fn_owner, fn_out,
                 fn_num, fn_other, fn_hash, au_environ, au_headers, allocVars, bkVars>>

AuthNext == Resolve

SpecAuth == AuthInit /\ [][AuthNext]_vars


(***************************************************************************)
(* SpecBackup: src/backup_current/dashboard/app.py -- boot, the poller,    *)
(* the socket handlers and the auto-create request.  REQUIRED_FIELDS and   *)
(* required_fields are unset, so missing_fields() returns [] and the       *)
(* notifier is not called.                                                 *)
(***************************************************************************)
\* SpecBackup: one auto-create request beside the poller and the sockets
BackupSetup ==
  [threads |-> {1},
   rows |-> { Row(P0002_JW, Plant, BakJeongU) },
   reqs |-> { [company |-> Glob, owner |-> BakYongGu, addr |-> TRUE] },
   fails |-> MaxFetchFail,
   service |-> TRUE]

\* SpecBackupReq: two auto-create requests beside the poller, no socket
BackupReqSetup == [BackupSetup EXCEPT !.threads = Threads]

\* SpecBackupDummy: the server started without GOOGLE_SERVICE_ACCOUNT_JSON
\* (or with credentials that do not load), so that _build_service returned
\* None; nothing raises in this mode
BackupDummySetup ==
  [threads |-> Threads,
   rows |-> {},
   reqs |-> { [company |-> Glob, owner |-> BakYongGu, addr |-> TRUE],
              [company |-> Plant, owner |-> BakJeongU, addr |-> TRUE] },
   fails |-> 0,
   service |-> FALSE]

BackupInitWith(env) ==
  /\ setup = env
  /\ NtIdle
  /\ _project_config = [company_prefix_map |-> EmptyMap, owner_suffix_map |-> EmptyMap]
  /\ sheet = Frame(AllCols, <<Row(G0001_YG, Glob, BakYongGu)>>)
  /\ fn_df = NoneDf /\ fn_company = <<>> /\ fn_owner = <<>>
  /\ fn_out = Pending /\ fn_num = None
  /\ fn_other = NoneDf /\ fn_hash = <<>>
  /\ au_environ = [API_KEY |-> Secret12, ADMIN_EMAILS |-> <<AdminAtX>>]
  /\ au_headers = NoHeaders
  /\ au_out = NoPair
  /\ AllocIdle
  /\ environ \in EnvPool
  /\ _cache_df = EmptyFrame
  /\ _cache_hash = NoHash
  /\ _clients = <<>>
  /\ gsFails = 0
  /\ socket = [s \in Sids |-> "closed"]
  /\ authed = [s \in Sids |-> NoHeaders]
  /\ inbox = [s \in Sids |-> NoneDf]
  /\ sub_df = [s \in Sids |-> NoneDf]
  /\ ppc = "off"
  /\ p_df = NoneDf
  /\ p_h = NoHash
  /\ p_todo = <<>>
  /\ cycle = NoCycle
  /\ prev = Summary(NoCycle)
  /\ bpc = [t \in Threads |-> "idle"]
  /\ breq = [t \in Threads |-> NoReq]
  /\ bcode = [t \in Threads |-> <<>>]
  /\ bresult = [t \in Threads |-> NoResult]
  /\ bafter = [t \in Threads |-> {}]

BackupInit == BackupInitWith(BackupSetup)
BackupReqInit == BackupInitWith(BackupReqSetup)
BackupDummyInit == BackupInitWith(BackupDummySetup)

pollVars == <<ppc, p_df, p_h, p_todo, cycle, prev>>
reqVars == <<bpc, breq, bcode, bresult, bafter>>
sockVars == <<_clients, socket, authed>>

\* a variant in which boot() runs again while the server is up, starting
\* another poller loop
Boot_again ==
  /\ _cache_df' = fetch_dataframe
  /\ _cache_hash' = _df_hash(fetch_dataframe)
  /\ ppc' = "sleep"
  /\ UNCHANGED <<_project_config, sheet, setup, fnVars, allocVars, ntVars, environ, sub_df, gsFails,
                 sockVars, inbox, p_df, p_h, p_todo, cycle, prev, reqVars>>

\* a variant whose boot stores the frame and leaves the fingerprint unset
Boot_no_hash ==
  /\ ppc = "off"
  /\ _cache_df' = fetch_dataframe
  /\ ppc' = "sleep"
  /\ UNCHANGED <<_project_config, sheet, setup, fnVars, allocVars, ntVars, environ, sub_df, gsFails,
                 _cache_hash, sockVars, inbox, p_df, p_h, p_todo, cycle, prev, reqVars>>

\* boot(), lines 285-291: the first fetch fills the store, the poller starts
Boot ==
  /\ ppc = "off"
  /\ _cache_df' = fetch_dataframe
  /\ _cache_hash' = _df_hash(fetch_dataframe)
  /\ ppc' = "sleep"
  /\ UNCHANGED <<_project_config, sheet, setup, fnVars, allocVars, ntVars, environ, sub_df, gsFails,
                 sockVars, inbox, p_df, p_h, p_todo, cycle, prev, reqVars>>

\* a variant whose failed fetch empties the store
PFetch_failure_clears ==
  /\ ppc = "sleep"
  /\ prev' = Summary(cycle)
  /\ \/ /\ p_df' = fetch_dataframe
        /\ p_h' = _df_hash(fetch_dataframe)
        /\ cycle' = [NoCycle EXCEPT !.fetched = TRUE, !.df = fetch_dataframe]
        /\ ppc' = "compare"
        /\ UNCHANGED <<gsFails, _cache_df, _cache_hash>>
     \/ /\ gsFails < setup.fails
        /\ gsFails' = gsFails + 1
        /\ cycle' = NoCycle
        /\ _cache_df' = EmptyFrame
        /\ _cache_hash' = _df_hash(EmptyFrame)
        /\ UNCHANGED <<ppc, p_df, p_h>>
  /\ UNCHANGED <<_project_config, sheet, setup, fnVars, allocVars, ntVars, environ, sub_df,
                 sockVars, inbox, p_todo, reqVars>>

\* poller, lines 145-146: a cycle begins; the fetch returns or raises
\* (lines 159-160 end the cycle)
PFetch ==
  /\ ppc = "sleep"
  /\ prev' = Summary(cycle)
  /\ \/ /\ p_df' = fetch_dataframe
        /\ p_h' = _df_hash(fetch_dataframe)
        /\ cycle' = [NoCycle EXCEPT !.fetched = TRUE, !.df = fetch_dataframe]
        /\ ppc' = "compare"
        /\ UNCHANGED gsFails
     \/ /\ gsFails < setup.fails
        /\ gsFails' = gsFails + 1
        /\ cycle' = NoCycle
        /\ UNCHANGED <<ppc, p_df, p_h>>
  /\ UNCHANGED <<_project_config, sheet, setup, fnVars, allocVars, ntVars, environ, sub_df, _cache_df,
                 _cache_hash, sockVars, inbox, p_todo, reqVars>>

\* a variant that replaces the stored frame and keeps the stored hash
PCompare_keeps_hash ==
  /\ ppc = "compare"
  /\ IF p_h # _cache_hash
     THEN /\ _cache_df' = p_df
          /\ UNCHANGED _cache_hash
          /\ cycle' = [cycle EXCEPT !.replaced = TRUE]
          /\ ppc' = "analyze"
     ELSE /\ cycle' = [cycle EXCEPT !.matched = TRUE]
          /\ ppc' = "sleep"
          /\ UNCHANGED <<_cache_df, _cache_hash>>
  /\ UNCHANGED <<_project_config, sheet, setup, fnVars, allocVars, ntVars, environ, sub_df, gsFails,
                 sockVars, inbox, p_df, p_h, p_todo, prev, reqVars>>

\* poller, lines 147-148: the hash is compared and, when it differs, the
\* store is replaced; an equal hash ends the cycle
PCompare ==
  /\ ppc = "compare"
  /\ IF p_h # _cache_hash
     THEN /\ _cache_df' = p_df
          /\ _cache_hash' = p_h
          /\ cycle' = [cycle EXCEPT !.replaced = TRUE]
          /\ ppc' = "analyze"
     ELSE /\ cycle' = [cycle EXCEPT !.matched = TRUE]
          /\ ppc' = "sleep"
          /\ UNCHANGED <<_cache_df, _cache_hash>>
  /\ UNCHANGED <<_project_config, sheet, setup, fnVars, allocVars, ntVars, environ, sub_df, gsFails,
                 sockVars, inbox, p_df, p_h, p_todo, prev, reqVars>>

\* poller, lines 150-154: DataAnalyzer(df) (data_analyzer.py:27 raises when
\* OVERDUE_CONFIRM_DAYS is no number, and lines 159-160 end the cycle), then
\* missing_fields() and list(_clients.keys())
PAnalyze ==
  /\ ppc = "analyze"
  /\ IF IntRaises(environ.OVERDUE_CONFIRM_DAYS)
     THEN /\ ppc' = "sleep"
          /\ cycle' = [cycle EXCEPT !.targets = Range(_clients)]
          /\ UNCHANGED p_todo
     ELSE /\ p_todo' = _clients
          /\ cycle' = [cycle EXCEPT !.bcast = TRUE, !.targets = Range(_clients)]
          /\ ppc' = IF _clients = <<>> THEN "sleep" ELSE "emit"
  /\ UNCHANGED <<_project_config, sheet, setup, fnVars, allocVars, ntVars, environ, sub_df, _cache_df,
                 _cache_hash, gsFails, sockVars, inbox, p_df, p_h, prev, reqVars>>

\* a variant whose emit loop walks the registry itself and ends when the
\* registry has changed since the loop began
PEmit_live_registry ==
  /\ ppc = "emit"
  /\ IF Range(_clients) # cycle.targets
     THEN /\ p_todo' = <<>>
          /\ ppc' = "sleep"
          /\ UNCHANGED <<inbox, cycle>>
     ELSE /\ LET sid == Head(p_todo)
             IN  \E ok \in BOOLEAN :
                   /\ inbox' = IF ok /\ socket[sid] = "open"
                               THEN [inbox EXCEPT ![sid] = p_df]
                               ELSE inbox
                   /\ cycle' = [cycle EXCEPT !.tried = @ \cup {sid},
                                             !.sent = IF ok THEN @ \cup {sid} ELSE @]
          /\ p_todo' = Tail(p_todo)
          /\ ppc' = IF Tail(p_todo) = <<>> THEN "sleep" ELSE "emit"
  /\ UNCHANGED <<_project_config, sheet, setup, fnVars, allocVars, ntVars, environ, sub_df, _cache_df,
                 _cache_hash, gsFails, sockVars, p_df, p_h, prev, reqVars>>

\* a variant whose emit loop ends at the first emit that raises
PEmit_stops_at_failure ==
  /\ ppc = "emit"
  /\ LET sid == Head(p_todo)
     IN  \E ok \in BOOLEAN :
           /\ inbox' = IF ok /\ socket[sid] = "open"
                       THEN [inbox EXCEPT ![sid] = p_df]
                       ELSE inbox
           /\ cycle' = [cycle EXCEPT !.tried = @ \cup {sid},
                                     !.sent = IF ok THEN @ \cup {sid} ELSE @]
           /\ p_todo' = IF ok THEN Tail(p_todo) ELSE <<>>
           /\ ppc' = IF ok /\ Tail(p_todo) # <<>> THEN "emit" ELSE "sleep"
  /\ UNCHANGED <<_project_config, sheet, setup, fnVars, allocVars, ntVars, environ, sub_df, _cache_df,
                 _cache_hash, gsFails, sockVars, p_df, p_h, prev, reqVars>>

\* poller, lines 154-158: one round of the emit loop; emit returns, or raises
\* and the loop goes on.  A sid whose connection is gone receives nothing.
PEmit ==
  /\ ppc = "emit"
  /\ LET sid == Head(p_todo)
     IN  \E ok \in BOOLEAN :
           /\ inbox' = IF ok /\ socket[sid] = "open"
                       THEN [inbox EXCEPT ![sid] = p_df]
                       ELSE inbox
           /\ cycle' = [cycle EXCEPT !.tried = @ \cup {sid},
                                     !.sent = IF ok THEN @ \cup {sid} ELSE @]
  /\ p_todo' = Tail(p_todo)
  /\ ppc' = IF Tail(p_todo) = <<>> THEN "sleep" ELSE "emit"
  /\ UNCHANGED <<_project_config, sheet, setup, fnVars, allocVars, ntVars, environ, sub_df, _cache_df,
                 _cache_hash, gsFails, sockVars, p_df, p_h, prev, reqVars>>

\* _clients.pop(sid, None)
Pop(clients, sid) == SelectSeq(clients, LAMBDA x : x # sid)

\* a client connects: a new connection, which has been sent nothing and has
\* no handler running.  Every connection gets a sid of its own: a sid the
\* poller's list still holds is not given to a new connection.
SockConnect(s) ==
  /\ ppc # "off"
  /\ socket[s] = "closed"
  /\ sub_df[s].none
  /\ s \notin Range(p_todo)
  /\ socket' = [socket EXCEPT ![s] = "open"]
  /\ authed' = [authed EXCEPT ![s] = NoHeaders]
  /\ inbox' = [inbox EXCEPT ![s] = NoneDf]
  /\ UNCHANGED <<_project_config, sheet, setup, fnVars, allocVars, ntVars, environ, sub_df, _cache_df,
                 _cache_hash, gsFails, _clients, pollVars, reqVars>>

\* the auth events a client may send: the configured key with an identity,
\* a wrong key, and the configured key with a blank identity
SockAuthPool ==
  { [key |-> Secret12, email |-> <<" ">> \o UserAtX],
    [key |-> Secret13, email |-> UserAtX],
    [key |-> Secret12, email |-> <<" ">>] }

\* a variant that registers the sid whenever the event names an identity
SockAuth_any_key(s) ==
  /\ socket[s] = "open"
  /\ \E data \in SockAuthPool :
       LET email == Strip(data.email)
       IN  /\ authed' = [authed EXCEPT ![s] = data]
           /\ IF email # <<>>
              THEN /\ _clients' = IF s \in Range(_clients) THEN _clients
                                   ELSE Append(_clients, s)
                   /\ UNCHANGED socket
              ELSE /\ socket' = [socket EXCEPT ![s] = "closed"]
                   /\ _clients' = Pop(_clients, s)
  /\ UNCHANGED <<_project_config, sheet, setup, fnVars, allocVars, ntVars, environ, sub_df, _cache_df,
                 _cache_hash, gsFails, inbox, pollVars, reqVars>>

\* sock_auth, lines 258-268: a valid key and identity registers the sid;
\* otherwise the connection is closed, which runs sock_disconn
SockAuth(s) ==
  /\ socket[s] = "open"
  /\ \E data \in SockAuthPool :
       LET req_headers == [key |-> data.key, email |-> Strip(data.email)]
           email == get_user_from_headers(req_headers).identity
       IN  /\ authed' = [authed EXCEPT ![s] = data]
           /\ IF email # <<>>
              THEN /\ _clients' = IF s \in Range(_clients) THEN _clients
                                   ELSE Append(_clients, s)
                   /\ UNCHANGED socket
              ELSE /\ socket' = [socket EXCEPT ![s] = "closed"]
                   /\ _clients' = Pop(_clients, s)
  /\ UNCHANGED <<_project_config, sheet, setup, fnVars, allocVars, ntVars, environ, sub_df, _cache_df,
                 _cache_hash, gsFails, inbox, pollVars, reqVars>>

\* sock_disconn, lines 270-272
SockDisconn(s) ==
  /\ socket[s] = "open"
  /\ socket' = [socket EXCEPT ![s] = "closed"]
  /\ _clients' = Pop(_clients, s)
  /\ UNCHANGED <<_project_config, sheet, setup, fnVars, allocVars, ntVars, environ, sub_df, _cache_df,
                 _cache_hash, gsFails, authed, inbox, pollVars, reqVars>>

\* sock_subscribe, lines 274-282: for a registered sid the handler reads the
\* stored frame (a fetched one while the store is empty); another sid is
\* closed
SockSubscribe(s) ==
  /\ socket[s] = "open"
  /\ sub_df[s].none
  /\ IF s \in Range(_clients)
     THEN /\ sub_df' = [sub_df EXCEPT ![s] = IF ~IsEmpty(_cache_df) THEN _cache_df
                                              ELSE fetch_dataframe]
          /\ UNCHANGED <<_clients, socket>>
     ELSE /\ socket' = [socket EXCEPT ![s] = "closed"]
          /\ UNCHANGED <<_clients, sub_df>>
  /\ UNCHANGED <<_project_config, sheet, setup, fnVars, allocVars, ntVars, environ, inbox, _cache_df,
                 _cache_hash, gsFails, authed, pollVars, reqVars>>

\* sock_subscribe, line 283: the handler emits the frame it read to its own
\* sid; a connection that is gone receives nothing
SockSubscribeEmit(s) ==
  /\ ~sub_df[s].none
  /\ inbox' = IF socket[s] = "open" THEN [inbox EXCEPT ![s] = sub_df[s]] ELSE inbox
  /\ sub_df' = [sub_df EXCEPT ![s] = NoneDf]
  /\ UNCHANGED <<_project_config, sheet, setup, fnVars, allocVars, ntVars, environ, _cache_df,
                 _cache_hash, gsFails, sockVars, pollVars, reqVars>>

BFinish(t, resp) ==
  /\ bpc' = [bpc EXCEPT ![t] = "done"]
  /\ bresult' = [bresult EXCEPT ![t] = resp]

\* add_project_auto, lines 213-220: the identity, the payload, the two
\* fields the code is built from
BStart(t) ==
  /\ t \in setup.threads
  /\ ppc # "off"
  /\ bpc[t] = "idle"
  /\ \E r \in setup.reqs, authorised \in BOOLEAN :
       /\ breq' = [breq EXCEPT ![t] = r]
       /\ bafter' = [bafter EXCEPT ![t] = { u \in Threads : bpc[u] = "done"
                                                             /\ bresult[u].status = 200 }]
       /\ IF ~authorised
          THEN BFinish(t, Response(401, "Unauthorized"))
          ELSE IF Strip(r.company) = <<>> \/ Strip(r.owner) = <<>>
          THEN BFinish(t, Response(400, "Required"))
          ELSE /\ bpc' = [bpc EXCEPT ![t] = "generate"]
               /\ UNCHANGED bresult
  /\ UNCHANGED <<_project_config, sheet, setup, fnVars, allocVars, ntVars, environ, sub_df, _cache_df,
                 _cache_hash, gsFails, sockVars, inbox, pollVars, bcode>>

\* add_project_auto, lines 223-234: the code is built on the stored frame (a
\* fetched one while the store is empty); no field is required
BGenerate(t) ==
  /\ bpc[t] = "generate"
  /\ LET df == IF ~IsEmpty(_cache_df) THEN _cache_df ELSE fetch_dataframe
         gen == _auto_project_code(df, Strip(breq[t].company), Strip(breq[t].owner))
     IN  IF gen.exc # ""
         THEN /\ BFinish(t, Response(400, "MappingUnresolved"))
              /\ UNCHANGED bcode
         ELSE /\ bcode' = [bcode EXCEPT ![t] = gen.code]
              /\ bpc' = [bpc EXCEPT ![t] = "append"]
              /\ UNCHANGED bresult
  /\ UNCHANGED <<_project_config, sheet, setup, fnVars, allocVars, ntVars, environ, sub_df, _cache_df,
                 _cache_hash, gsFails, sockVars, inbox, pollVars, breq, bafter>>

\* a variant that appends again when the request to the sheet has raised, and
\* answers with the outcome of the second try
BAppend_retries(t) ==
  /\ bpc[t] = "append"
  /\ \/ /\ setup.service
        /\ sheet' = Frame(sheet.columns,
                          Append(sheet.rows, Row(bcode[t], breq[t].company, breq[t].owner)))
        /\ BFinish(t, Response(200, ""))
        /\ UNCHANGED gsFails
     \/ /\ gsFails < setup.fails
        /\ gsFails' = gsFails + 1
        /\ sheet' = Frame(sheet.columns,
                          Append(sheet.rows, Row(bcode[t], breq[t].company, breq[t].owner)))
        /\ BFinish(t, Response(200, ""))
  /\ UNCHANGED <<_project_config, setup, fnVars, allocVars, ntVars, environ, sub_df, _cache_df,
                 _cache_hash, sockVars, inbox, pollVars, breq, bcode, bafter>>

\* add_project_auto, lines 236-241, and GoogleSheetsManager.append_row: the
\* row is added to the sheet, or the request to the sheet raises; without a
\* service append_row returns at line 64 and the request answers ok
BAppend(t) ==
  /\ bpc[t] = "append"
  /\ \/ /\ setup.service
        /\ sheet' = Frame(sheet.columns,
                          Append(sheet.rows, Row(bcode[t], breq[t].company, breq[t].owner)))
        /\ BFinish(t, Response(200, ""))
        /\ UNCHANGED gsFails
     \/ /\ ~setup.service
        /\ BFinish(t, Response(200, ""))
        /\ UNCHANGED <<sheet, gsFails>>
     \/ /\ gsFails < setup.fails
        /\ gsFails' = gsFails + 1
        /\ BFinish(t, Response(500, "AppendFailed"))
        /\ UNCHANGED sheet
  /\ UNCHANGED <<_project_config, setup, fnVars, allocVars, ntVars, environ, sub_df, _cache_df,
                 _cache_hash, sockVars, inbox, pollVars, breq, bcode, bafter>>

BackupNext ==
  \/ Boot \/ PFetch \/ PCompare \/ PAnalyze \/ PEmit
  \/ \E s \in Sids :
       \/ SockConnect(s) \/ SockAuth(s) \/ SockDisconn(s)
       \/ SockSubscribe(s) \/ SockSubscribeEmit(s)
  \/ \E t \in Threads : BStart(t) \/ BGenerate(t) \/ BAppend(t)

SpecBackup == BackupInit /\ [][BackupNext]_vars

BackupReqNext ==
  \/ Boot \/ PFetch \/ PCompare \/ PAnalyze
  \/ \E t \in Threads : BStart(t) \/ BGenerate(t) \/ BAppend(t)

SpecBackupReq == BackupReqInit /\ [][BackupReqNext]_vars

\* SpecPoll: the poller and one socket while users edit the sheet: they add
\* rows and rename the header of the company column
PollSetup ==
  [threads |-> {},
   rows |-> { Row(P0002_JW, Plant, BakJeongU) },
   reqs |-> {},
   fails |-> MaxFetchFail,
   service |-> TRUE]

PollInit == BackupInitWith(PollSetup)

\* a user of the spreadsheet renames the header cell of the company column
HeaderEdit ==
  /\ ColComp \in sheet.columns
  /\ sheet' = Frame((sheet.columns \ {ColComp}) \cup {ColRenamed}, sheet.rows)
  /\ UNCHANGED <<_project_config, setup, fnVars, allocVars, bkVars>>

PollNext ==
  \/ Boot \/ PFetch \/ PCompare \/ PAnalyze \/ PEmit
  \/ SockConnect(1) \/ SockAuth(1)
  \/ SheetEdit \/ HeaderEdit

SpecPoll == PollInit /\ [][PollNext]_vars

\* SpecPoll with the poller thread scheduled: time.sleep returns and each
\* step of a cycle is taken
SpecPollFair ==
  SpecPoll /\ WF_vars(PFetch) /\ WF_vars(PCompare) /\ WF_vars(PAnalyze) /\ WF_vars(PEmit)

\* without a service the fetch gives the same rows every time: the poller
\* never finds a change
BackupDummyNext ==
  \/ Boot \/ PFetch \/ PCompare
  \/ \E t \in Threads : BStart(t) \/ BGenerate(t) \/ BAppend(t)

SpecBackupDummy == BackupDummyInit /\ [][BackupDummyNext]_vars


(***************************************************************************)
(* SpecNotify, SpecNotifyRace: NotificationSystem._should_send called by   *)
(* one thread, and by two threads at once, while the clock advances.       *)
(***************************************************************************)
\* _should_send calls in one run, and advances of the clock
MaxCalls == 3
MaxTicks == 3
\* by how many seconds the clock advances at once: a minute, and the rest
\* of the default window
Steps == {60, 7140}

NotifySetup == [NoSetup EXCEPT !.threads = {1}]
NotifyRaceSetup == [NoSetup EXCEPT !.threads = Threads]

\* the notifier after __init__ at one of the given clock values, with
\* NOTIFY_SUPPRESS_MINUTES one of the given durations
NotifyInitAt(env, clocks, durations) ==
  /\ setup = env
  /\ _project_config = [company_prefix_map |-> EmptyMap, owner_suffix_map |-> EmptyMap]
  /\ sheet = Frame(AllCols, <<>>)
  /\ FnIdle
  /\ AllocIdle
  /\ environ = [OVERDUE_CONFIRM_DAYS |-> <<"2">>]
  /\ _cache_df = EmptyFrame
  /\ _cache_hash = NoHash
  /\ _clients = <<>>
  /\ gsFails = 0
  /\ socket = [s \in Sids |-> "closed"]
  /\ authed = [s \in Sids |-> NoHeaders]
  /\ inbox = [s \in Sids |-> NoneDf]
  /\ sub_df = [s \in Sids |-> NoneDf]
  /\ ppc = "off"
  /\ p_df = NoneDf
  /\ p_h = NoHash
  /\ p_todo = <<>>
  /\ cycle = NoCycle
  /\ prev = Summary(NoCycle)
  /\ bpc = [t \in Threads |-> "idle"]
  /\ breq = [t \in Threads |-> NoReq]
  /\ bcode = [t \in Threads |-> <<>>]
  /\ bresult = [t \in Threads |-> NoResult]
  /\ bafter = [t \in Threads |-> {}]
  /\ clock \in clocks
  /\ ticks = 0
  /\ suppress_minutes \in durations
  /\ _recent = NoEntries
  /\ npc = [t \in Threads |-> "idle"]
  /\ nkey = [t \in Threads |-> ""]
  /\ n_now = [t \in Threads |-> 0]
  /\ n_last = [t \in Threads |-> 0]
  /\ nlog = <<>>

NotifyInitWith(env) == NotifyInitAt(env, {T0}, SuppressPool)

\* a host whose clock was at the epoch an hour ago, and a duration of some
\* 57 years
EarlyClock == 3600
LongSuppress == 30000000
NotifyAnyInit == NotifyInitAt(NotifySetup, {T0, EarlyClock}, SuppressPool \cup {LongSuppress})

NotifyInit == NotifyInitWith(NotifySetup)
NotifyRaceInit == NotifyInitWith(NotifyRaceSetup)

othersOfNotify ==
  <<_project_config, sheet, setup, fnVars, allocVars, environ, _cache_df, _cache_hash,
    _clients, gsFails, socket, authed, inbox, ppc, p_df, p_h, p_todo, cycle, prev, bpc,
    breq,
    bcode, bresult, bafter, sub_df>>

\* time passes
Tick ==
  /\ ticks < MaxTicks
  /\ ticks' = ticks + 1
  /\ \E d \in Steps : clock' = clock + d
  /\ UNCHANGED <<othersOfNotify, suppress_minutes, _recent, npc, nkey, n_now, n_last, nlog>>

\* self._recent.get(key, 0)
RecentGet(key) == IF key \in DOMAIN _recent THEN _recent[key] ELSE 0

\* _should_send, lines 12-13: the caller reads the clock and the key's entry
ShouldSendRead(t) ==
  /\ t \in setup.threads
  /\ npc[t] = "idle"
  /\ Len(nlog) + Cardinality({u \in Threads : npc[u] = "decide"}) < MaxCalls
  /\ \E key \in Keys :
       /\ nkey' = [nkey EXCEPT ![t] = key]
       /\ n_last' = [n_last EXCEPT ![t] = RecentGet(key)]
  /\ n_now' = [n_now EXCEPT ![t] = clock]
  /\ npc' = [npc EXCEPT ![t] = "decide"]
  /\ UNCHANGED <<othersOfNotify, clock, ticks, suppress_minutes, _recent, nlog>>

\* a variant in which notify_missing_fields posts whatever the call returned
Returned_posts_always(t, ret) ==
  [key |-> nkey[t], at |-> n_now[t], last |-> n_last[t], ret |-> ret,
   posted |-> "pending"]

\* what a call that has returned leaves in nlog; posted tells what became of
\* the _post_slack that follows a True: "pending", then "ok" or "failed"
Returned(t, ret) ==
  [key |-> nkey[t], at |-> n_now[t], last |-> n_last[t], ret |-> ret,
   posted |-> IF ret THEN "pending" ELSE "none"]

\* notify_missing_fields, lines 35-37: where the caller goes after the call
AfterShouldSend(t, ret) ==
  npc' = [npc EXCEPT ![t] = IF ret THEN "post" ELSE "idle"]

\* a variant that returns True without stamping the entry
ShouldSendDecide_no_stamp(t) ==
  /\ npc[t] = "decide"
  /\ nlog' = Append(nlog, Returned(t, n_now[t] - n_last[t] >= suppress_minutes * 60))
  /\ AfterShouldSend(t, n_now[t] - n_last[t] >= suppress_minutes * 60)
  /\ UNCHANGED <<othersOfNotify, clock, ticks, suppress_minutes, _recent, nkey, n_now,
                 n_last>>

\* a variant that stamps the entry whatever it returns
ShouldSendDecide_stamps_always(t) ==
  /\ npc[t] = "decide"
  /\ _recent' = (nkey[t] :> n_now[t]) @@ _recent
  /\ nlog' = Append(nlog, Returned(t, n_now[t] - n_last[t] >= suppress_minutes * 60))
  /\ AfterShouldSend(t, n_now[t] - n_last[t] >= suppress_minutes * 60)
  /\ UNCHANGED <<othersOfNotify, clock, ticks, suppress_minutes, nkey, n_now, n_last>>

\* _should_send, lines 14-17: the comparison, the stamp, the result
ShouldSendDecide(t) ==
  /\ npc[t] = "decide"
  /\ IF n_now[t] - n_last[t] >= suppress_minutes * 60
     THEN /\ _recent' = (nkey[t] :> n_now[t]) @@ _recent
          /\ nlog' = Append(nlog, Returned(t, TRUE))
     ELSE /\ nlog' = Append(nlog, Returned(t, FALSE))
          /\ UNCHANGED _recent
  /\ AfterShouldSend(t, n_now[t] - n_last[t] >= suppress_minutes * 60)
  /\ UNCHANGED <<othersOfNotify, clock, ticks, suppress_minutes, nkey, n_now, n_last>>

\* the entry of nlog that belongs to the call of t whose post is pending
PendingEntry(t) ==
  CHOOSE i \in DOMAIN nlog :
    nlog[i].posted = "pending" /\ nlog[i].key = nkey[t] /\ nlog[i].at = n_now[t]

\* _post_slack, lines 19-27, called at line 37: the webhook answers 2xx, or
\* it answers otherwise or requests.post raises; notify_missing_fields drops
\* the result either way
PostSlack(t) ==
  /\ npc[t] = "post"
  /\ \E answer \in {"ok", "failed"} :
       nlog' = [nlog EXCEPT ![PendingEntry(t)].posted = answer]
  /\ npc' = [npc EXCEPT ![t] = "idle"]
  /\ UNCHANGED <<othersOfNotify, clock, ticks, suppress_minutes, _recent, nkey, n_now,
                 n_last>>

NotifyNext ==
  \/ Tick
  \/ \E t \in Threads : ShouldSendRead(t) \/ ShouldSendDecide(t) \/ PostSlack(t)

SpecNotify == NotifyInit /\ [][NotifyNext]_vars
SpecNotifyRace == NotifyRaceInit /\ [][NotifyNext]_vars
\* one caller, at any clock value and with any duration
SpecNotifyAny == NotifyAnyInit /\ [][NotifyNext]_vars


(***************************************************************************)
(* Claims                                                                  *)
(***************************************************************************)
\* inside the with block of _safe_next_running_number_with_retry
InRegion(t) == pc[t] \in {"attempt", "release"}

\* C2: at most one caller at a time is inside the locked region, also when
\* the lock is created lazily by the first calls.
C2_MutualExclusion ==
  \A a, b \in Threads : a # b => ~(InRegion(a) /\ InRegion(b))

\* C3: from the moment a caller's code has passed its last duplicate check
\* until its row is appended, no other caller loads the data source and
\* computes a candidate.
C3_NoCandidateBeforeAppend ==
  [][\A a, b \in Threads :
       (a # b /\ pc[a] = "convert") => ~(pc[b] = "attempt" /\ pc'[b] = "release")]_vars

\* the structured form of section 3: one uppercase letter, four digits, the
\* hyphen, one or more uppercase letters
StructuredCode(c) == MatchFullPattern(c)

\* the company occurs in a row of d whose code satisfies WF
CompanySeen(d, company, WF(_)) ==
  /\ ColCode \in d.columns /\ ColComp \in d.columns
  /\ \E i \in DOMAIN d.rows : Strip(d.rows[i].comp) = company /\ WF(d.rows[i].code)
\* the owner occurs in a row of d with a structured code
OwnerLearned(d, owner) ==
  /\ ColCode \in d.columns /\ ColOwner \in d.columns
  /\ \E i \in DOMAIN d.rows :
       Strip(d.rows[i].owner) = owner /\ StructuredCode(Strip(d.rows[i].code))
\* no prefix for the company or no suffix for the owner
Unresolved(d, company, owner, WF(_)) ==
  \/ /\ ~CompanySeen(d, company, WF)
     /\ company \notin DOMAIN _project_config.company_prefix_map
  \/ /\ ~OwnerLearned(d, owner)
     /\ owner \notin DOMAIN _project_config.owner_suffix_map

\* an attempt of thread t that found the mapping unresolved yields no code
\* and the mapping error, and a request goes on towards the append only with
\* a code
MappingContract(WF(_)) ==
  \A t \in Threads :
    /\ (pc[t] = "release" /\ ~dfOf[t].none
          /\ Unresolved(dfOf[t], req[t].company, req[t].owner, WF))
       => /\ outcome[t].error = "MappingUnresolved"
          /\ outcome[t].how # "return"
          /\ codeOf[t] = <<>>
    /\ (pc[t] = "done" /\ result[t].error = "MappingUnresolved")
       => result[t].status = 400 /\ codeOf[t] = <<>>
    /\ pc[t] \in {"required", "final", "convert"} => codeOf[t] # <<>>

Collides(t) ==
  /\ pc[t] = "release" /\ ~dfOf[t].none
  /\ LET gen == _auto_project_code(dfOf[t], req[t].company, req[t].owner)
     IN  gen.exc = "" /\ gen.code \in existing_codes(dfOf[t])

\* C7: an allocate call makes at most max_retries attempts; an attempt that
\* detects a collision returns no code, is retried while attempts remain, and
\* on the last attempt ends the call with the exhaustion error.
C7_BoundedRetries ==
  \A t \in Threads :
    /\ attempt[t] \in 0..(max_retries - 1)
    /\ Collides(t) =>
         /\ codeOf[t] = <<>>
         /\ IF attempt[t] = max_retries - 1
            THEN outcome[t].how = "raise" /\ outcome[t].error = "AllocationExhausted"
            ELSE outcome[t].how = "retry"
    /\ (pc[t] = "done" /\ result[t].error = "AllocationExhausted")
       => attempt[t] = max_retries - 1 /\ codeOf[t] = <<>> /\ result[t].status = 400

C7_Witness ==
  \E t \in Threads :
    pc[t] = "done" /\ result[t] = Response(400, "AllocationExhausted")

\* C8: the candidate of every attempt is computed from the rows fetched from
\* the data source during that attempt.
C8_FreshSnapshot ==
  [][\A t \in Threads :
       (pc[t] = "attempt" /\ pc'[t] = "release" /\ ~dfOf'[t].none)
       => dfOf'[t] = get_sheet_data]_vars

\* the sequence numbers of the codes of d that satisfy WF
SeqNumbers(d, WF(_)) ==
  IF ColCode \in d.columns
  THEN { ParseInt(SubSeq(d.rows[i].code, 2, 5)) :
           i \in { j \in DOMAIN d.rows : WF(d.rows[j].code) } }
  ELSE {}

\* the helpers were applied to fn_df, and the number they used is one plus
\* the largest number among the codes satisfying WF, or 1 without such a code
GlobalSequence(WF(_)) ==
  fn_out # Pending =>
    LET S == SeqNumbers(fn_df, WF)
        n == IF S = {} THEN 1 ELSE Max(S) + 1
    IN  /\ fn_num = n
        /\ fn_out.exc = "" =>
             fn_out.code =
               Get(_build_company_prefix_map(fn_df), Strip(fn_company))
                 \o Format04d(n) \o <<"-">>
                 \o Get(_build_owner_suffix_map(fn_df), Strip(fn_owner))

\* C4 as claimed: the number of a new code is one plus the largest number
\* among all well-formed (structured) codes of the snapshot, whatever their
\* prefix or suffix, and 1 when there is none.
C4_GlobalSequence_Original == GlobalSequence(StructuredCode)

\* C4 as amended: the same over all codes that begin with an uppercase
\* letter, four digits and a hyphen, whatever follows the hyphen.
C4_GlobalSequence == GlobalSequence(MatchPrefixPattern)

C4_Witness ==
  /\ fn_out # Pending /\ fn_out.exc = ""
  /\ fn_df.rows = <<Row(G0001_YG, Glob, BakYongGu), Row(P0002_JW, Neo, BakJeongU)>>
  /\ fn_df.columns = AllCols
  /\ fn_num = 3

\* the snapshot of the scenario: G0001-YG of company Glob and owner BakYongGu,
\* then P0002-JW of any company and owner
ScenarioSnapshot ==
  /\ fn_df.columns = AllCols
  /\ Len(fn_df.rows) = 2
  /\ fn_df.rows[1] = Row(G0001_YG, Glob, BakYongGu)
  /\ fn_df.rows[2].code = P0002_JW

\* C5: on that snapshot, allocating for Glob and BakYongGu, whose suffix is
\* the learned one (no static override names the owner), yields G0003-YG.
C5_Scenario ==
  ( /\ fn_out # Pending
    /\ ScenarioSnapshot
    /\ Strip(fn_company) = Glob /\ Strip(fn_owner) = BakYongGu
    /\ BakYongGu \notin DOMAIN _project_config.owner_suffix_map )
  => fn_out = [exc |-> "", code |-> G0003_YG]

C5_Witness ==
  /\ ScenarioSnapshot
  /\ fn_df.rows[2] = Row(P0002_JW, Glob, BakYongGu)
  /\ Glob \in DOMAIN _project_config.company_prefix_map
  /\ fn_company = Glob \o <<" ">> /\ fn_owner = BakYongGu
  /\ fn_out = [exc |-> "", code |-> G0003_YG]

\* the earlier server answered request t with ok and its code
Succeeded(t) == bpc[t] = "done" /\ bresult[t].status = 200

\* C1: no two auto-create requests that both finish successfully return or
\* append the same project code.  The earlier server's add_project_auto
\* builds its code on the stored frame without any lock and appends it
\* without a check, so two requests for the same company and owner both
\* succeed with the same code.
C1_DistinctCodes ==
  \A a, b \in Threads : (a # b /\ Succeeded(a) /\ Succeeded(b)) => bcode[a] # bcode[b]

\* cycle c replaced nothing and sent nothing
CycleQuiet(c) == ~c.bcast /\ ~c.replaced /\ c.targets = {} /\ c.tried = {} /\ c.sent = {}
\* a cycle that matched the store is quiet; of two successive cycles that
\* fetched the same content at most one reached the emit loop, and neither
\* when the first one matched the store
C9_Cycles ==
  /\ (cycle.fetched /\ cycle.matched) => CycleQuiet(cycle)
  /\ (prev.fetched /\ cycle.fetched /\ prev.df = cycle.df) =>
       /\ ~(prev.bcast /\ cycle.bcast)
       /\ prev.matched => (~prev.bcast /\ ~cycle.bcast)

\* C9: no redundant broadcast.  A poll cycle whose fetched hash equals the
\* stored one leaves the stored frame and hash as they are, ends the cycle
\* and sends nothing; and when two successive cycles fetch the same content,
\* at most one of them reaches the emit loop, and neither does when the first
\* one already matched the store.
C9_NoRedundantBroadcast ==
  [][ /\ C9_Cycles'
      /\ (ppc = "compare" /\ ppc' # ppc /\ p_h = _cache_hash) =>
           (ppc' = "sleep" /\ UNCHANGED <<_cache_df, _cache_hash, inbox>>) ]_vars
\* the cycle after one that replaced the store and sent it to a subscriber
\* has fetched the same content, matched, and ended
C9_Witness ==
  /\ ppc = "sleep"
  /\ prev.fetched /\ prev.bcast /\ ~prev.matched
  /\ cycle.fetched /\ cycle.matched /\ cycle.df = prev.df
  /\ \E s \in Sids : ~inbox[s].none /\ inbox[s] = _cache_df

\* C10: every poll cycle that replaces the store goes through the emit loop
\* for every sid registered then, before the poller sleeps again.  The code
\* leaves the cycle at lines 159-160 when DataAnalyzer(df) raises, after the
\* store was replaced and before the emit loop.
C10_ReplaceIsBroadcast ==
  (ppc = "sleep" /\ cycle.replaced) => cycle.targets \subseteq cycle.tried

\* the step is the poller's fetch raising: the poller was asleep, a request
\* to the sheet failed, and no auto-create request moved
FetchFails == ppc = "sleep" /\ gsFails' = gsFails + 1 /\ UNCHANGED bpc

\* C11: when a poll cycle's fetch fails, the stored frame and hash stay what
\* they were, nothing is sent to any sid, and the poller is back at its sleep
\* with the next fetch ahead of it.
C11_FetchFailure ==
  [][FetchFails =>
       /\ UNCHANGED <<_cache_df, _cache_hash, inbox, _clients>>
       /\ ppc' = "sleep"
       /\ CycleQuiet(cycle') /\ ~cycle'.fetched]_vars
\* a cycle whose fetch failed came after one that fetched, and the store
\* still holds a frame
C11_Witness ==
  /\ ppc = "sleep" /\ gsFails > 0
  /\ \A t \in Threads : bresult[t].status # 500
  /\ prev.fetched /\ ~cycle.fetched
  /\ ~IsEmpty(_cache_df) /\ _cache_hash = _df_hash(_cache_df)

\* a cycle that reached the emit loop has replaced the store, which still
\* holds what it fetched; the sids it tried and those still ahead of it are
\* the sids registered when the loop began; it sleeps only when none is ahead
BroadcastComplete ==
  cycle.bcast =>
    /\ cycle.replaced /\ _cache_df = cycle.df /\ _cache_hash = _df_hash(cycle.df)
    /\ cycle.tried \cup Range(p_todo) = cycle.targets
    /\ cycle.sent \subseteq cycle.tried
    /\ ppc \in {"emit", "sleep"}
    /\ ppc = "sleep" => p_todo = <<>>
\* the step is one round of the emit loop
EmitRound == ppc = "emit" /\ p_todo' # p_todo

\* C12: an emit that raises for one sid does not stop the emits to the sids
\* after it, does not end the cycle and does not undo the replacement of the
\* store; every sid registered when the loop began has its emit tried, with
\* the frame of that cycle.
C12_DeliveryFailureIsolated ==
  [][ /\ BroadcastComplete'
      /\ EmitRound =>
           \A s \in Sids :
             inbox'[s] # inbox[s] => (s = Head(p_todo) /\ inbox'[s] = cycle.df) ]_vars
\* the emit to the first registered sid raised and the second one was sent
\* the frame
C12_Witness ==
  \E a, b \in Sids :
    /\ a # b /\ _clients = <<a, b>>
    /\ ppc = "sleep" /\ cycle.bcast
    /\ cycle.targets = {a, b} /\ cycle.tried = {a, b} /\ cycle.sent = {b}
    /\ inbox[b] = cycle.df /\ inbox[a] # cycle.df

\* the step is a socket handler's: a connection opens or closes, or the
\* registry changes
RegistryStep == _clients' # _clients \/ socket' # socket

\* C13: a sid registered or unregistered while the emit loop runs leaves the
\* loop, its list and what it has done untouched; the loop begins with
\* exactly the sids registered then (those registered before are in it,
\* those unregistered before are not) and sleeps only after trying each of
\* them; closing a connection removes its sid, and is a no-op on the
\* registry for a sid that is not in it.
C13_RegistryDuringBroadcast ==
  [][ /\ (ppc = "analyze" /\ cycle'.bcast) =>
           (cycle'.targets = Range(_clients) /\ Range(p_todo') = Range(_clients))
      /\ (ppc' = "sleep" /\ cycle'.bcast) => cycle'.tried = cycle'.targets
      /\ (ppc = "emit" /\ RegistryStep) => UNCHANGED <<ppc, p_todo, cycle>>
      /\ \A s \in Sids :
           (socket[s] = "open" /\ socket'[s] = "closed") =>
             /\ s \notin Range(_clients')
             /\ s \notin Range(_clients) => _clients' = _clients ]_vars
\* in the middle of the emit loop, the sid still ahead has unregistered and
\* another sid has registered
C13_Witness ==
  \E a, b \in Sids :
    /\ a # b /\ ppc = "emit"
    /\ cycle.targets = {a} /\ p_todo = <<a>>
    /\ _clients = <<b>> /\ socket[a] = "closed"

\* The sheet only grows in SpecBackup, so of two frames the poller stored the
\* one with fewer rows is the older one.
Older(f, g) == Len(f.rows) < Len(g.rows)

\* C14: a sid is never sent an older frame after a newer one.  The subscribe
\* handler reads the store (line 282) and emits (line 283) in two steps, and
\* the poller can replace the store and emit the new frame between them.
C14_InOrder ==
  [][\A s \in Sids :
       (~inbox[s].none /\ ~inbox'[s].none) => ~Older(inbox'[s], inbox[s])]_vars

\* C15: the shared snapshot is replaced only by the poller, never by a
\* request handler, a socket handler or an allocation attempt.  In
\* src/dashboard/app.py every load_data() call assigns current_data, and
\* load_data is called from add_project_auto and from each attempt of the
\* allocator; the earlier server's store is written by boot and the poller.
C15_SingleWriter ==
  [][ /\ current_data' # current_data => \A t \in Threads : pc'[t] = pc[t]
      /\ <<_cache_df, _cache_hash>>' # <<_cache_df, _cache_hash>> =>
           (ppc' # ppc /\ UNCHANGED <<bpc, socket, sub_df>>) ]_vars

\* the poller is inside a cycle: between its fetch and the end of its emit loop
InCycle == ppc \in {"compare", "analyze", "emit"}
\* the step begins a cycle: the poller fetches
CycleBegins == prev' # prev \/ (~InCycle /\ InCycle') \/ (cycle' # cycle /\ ~cycle'.fetched)

\* C16: one poll cycle at a time.  A cycle begins only from the poller's
\* sleep, after the cycle before it has finished (nothing of its emit loop is
\* left), and boot starts the poller once.
C16_OneCycleAtATime ==
  [][ /\ CycleBegins => (ppc = "sleep" /\ p_todo = <<>>)
      /\ ppc' = "sleep" => p_todo' = <<>>
      /\ ppc' = "off" => ppc = "off"
      /\ (ppc # "off" /\ ~InCycle /\ ~InCycle') => UNCHANGED <<_cache_df, _cache_hash>> ]_vars
\* a cycle has begun after one that went through its whole emit loop
C16_Witness ==
  /\ ppc = "compare" /\ cycle.fetched
  /\ prev.fetched /\ prev.bcast /\ p_todo = <<>>
  /\ \E s \in Sids : inbox[s] = _cache_df

\* the suppression duration in seconds
Window == suppress_minutes * 60
\* calls i and j of nlog are for the same key, i before j
SameKey(i, j) == i < j /\ nlog[i].key = nlog[j].key
\* i and j are the first two calls for their key: the key had no entry at
\* call i, and no call for it lies between them
FirstTwo(i, j) ==
  /\ SameKey(i, j)
  /\ \A h \in DOMAIN nlog : (h < j /\ h # i) => nlog[h].key # nlog[i].key

C18_FrameEffect ==
  [][ /\ DOMAIN _recent \subseteq DOMAIN _recent'
      /\ IF Len(nlog') = Len(nlog)
         THEN _recent' = _recent
         ELSE LET c == nlog'[Len(nlog')]
              IN  IF c.ret
                  THEN /\ DOMAIN _recent' = DOMAIN _recent \cup {c.key}
                       /\ _recent'[c.key] = c.at
                       /\ \A k \in DOMAIN _recent \ {c.key} : _recent'[k] = _recent[k]
                  ELSE _recent' = _recent ]_vars
\* both keys have entries with different stamps, and the last call returned
\* False
C18_Witness ==
  /\ DOMAIN _recent = Keys /\ _recent[KeyA] # _recent[KeyB]
  /\ nlog # <<>> /\ ~nlog[Len(nlog)].ret
  /\ npc = [t \in Threads |-> "idle"]

\* C19: _should_send returns True only when the key has no entry or the time
\* since its entry strictly exceeds the suppression duration.  The code
\* compares with >=, so a call exactly the duration after the stamp returns
\* True and stamps again.
C19_StrictlyExceeds ==
  \A i \in DOMAIN nlog :
    nlog[i].ret => (nlog[i].last = 0 \/ nlog[i].at - nlog[i].last > Window)

\* C20: of two calls for the same key that run at the same time while the key
\* is due, at most one returns True: two calls that both return True lie at
\* least the suppression duration apart.  The code reads the entry and writes
\* the stamp without a lock.
C20_AtMostOneWinner ==
  \A i, j \in DOMAIN nlog :
    (SameKey(i, j) /\ nlog[i].ret /\ nlog[j].ret) => nlog[j].at - nlog[i].at >= Window

\* C21: the stored entry of a key is the time of a notification for that key
\* that the sink sent (or is still sending): a notification whose send failed
\* leaves no stamp.
C21_StampMeansSent ==
  \A k \in DOMAIN _recent :
    \E i \in DOMAIN nlog :
      /\ nlog[i].key = k /\ nlog[i].at = _recent[k]
      /\ nlog[i].posted \in {"pending", "ok"}

\* the first row of d in which the company occurs with a code satisfying WF
FirstRowOf(d, company, WF(_)) ==
  CHOOSE i \in DOMAIN d.rows :
    /\ Strip(d.rows[i].comp) = company /\ WF(d.rows[i].code)
    /\ \A j \in 1..(i - 1) : ~(Strip(d.rows[j].comp) = company /\ WF(d.rows[j].code))
\* the companies of the rows of d, and those of the overrides
CompaniesOf(d) ==
  ({ Strip(d.rows[i].comp) : i \in DOMAIN d.rows } \ {<<>>})
    \cup DOMAIN _project_config.company_prefix_map

\* a company seen with a WF code maps to the prefix of the first such row,
\* override or not; any other company is in the map only by its override
PrefixContract(WF(_)) ==
  fn_out # Pending =>
    LET m == _build_company_prefix_map(fn_df)
        config_map == _project_config.company_prefix_map
    IN  /\ DOMAIN m \subseteq CompaniesOf(fn_df)
        /\ \A c \in CompaniesOf(fn_df) :
             IF CompanySeen(fn_df, c, WF)
             THEN c \in DOMAIN m /\ m[c] = <<fn_df.rows[FirstRowOf(fn_df, c, WF)].code[1]>>
             ELSE /\ c \in DOMAIN m => c \in DOMAIN config_map
                  /\ c \in DOMAIN config_map => (c \in DOMAIN m /\ m[c] = config_map[c])

\* C22 as claimed: a company that occurs in a row with a well-formed
\* (structured) code maps to the prefix of the first such row in snapshot
\* order, and no static override replaces it; an override is used only for a
\* company with no learned prefix.
C22_FirstPrefixWins_Original == PrefixContract(StructuredCode)

\* C22 as amended: the same over the rows whose code begins with an uppercase
\* letter, four digits and a hyphen, whatever follows the hyphen.
C22_FirstPrefixWins == PrefixContract(MatchPrefixPattern)

\* a company with two prefixes in the snapshot and a conflicting override
C22_Witness ==
  /\ fn_out # Pending
  /\ fn_df.columns = AllCols
  /\ fn_df.rows = <<Row(G0001_YG, Glob, BakYongGu), Row(P0002_JW, Glob, BakYongGu)>>
  /\ _project_config.company_prefix_map = (Glob :> <<"X">>)
  /\ _build_company_prefix_map(fn_df)[Glob] = <<"G">>

\* the rows of d in which the owner occurs with a structured code
OwnerRows(d, owner) ==
  IF ColCode \in d.columns /\ ColOwner \in d.columns
  THEN { i \in DOMAIN d.rows :
           Strip(d.rows[i].owner) = owner /\ StructuredCode(Strip(d.rows[i].code)) }
  ELSE {}
\* the suffix of the code of row i
SuffixOfRow(d, i) == LET c == Strip(d.rows[i].code) IN SubSeq(c, 7, Len(c))
\* how many of the owner's rows carry the suffix, and the first that does
SuffixCount(d, owner, suf) ==
  Cardinality({ i \in OwnerRows(d, owner) : SuffixOfRow(d, i) = suf })
SuffixFirst(d, owner, suf) ==
  CHOOSE i \in OwnerRows(d, owner) :
    /\ SuffixOfRow(d, i) = suf
    /\ \A j \in OwnerRows(d, owner) : SuffixOfRow(d, j) = suf => i <= j
\* suf is the most frequent suffix of the owner; among equally frequent ones
\* it is the one met first
WinsFor(d, owner, suf) ==
  LET sufs == { SuffixOfRow(d, i) : i \in OwnerRows(d, owner) }
  IN  /\ suf \in sufs
      /\ \A t \in sufs \ {suf} :
           \/ SuffixCount(d, owner, t) < SuffixCount(d, owner, suf)
           \/ /\ SuffixCount(d, owner, t) = SuffixCount(d, owner, suf)
              /\ SuffixFirst(d, owner, suf) < SuffixFirst(d, owner, t)
\* the owners of the rows of d, and those of the overrides
OwnersOf(d) ==
  ({ Strip(d.rows[i].owner) : i \in DOMAIN d.rows } \ {<<>>})
    \cup DOMAIN _project_config.owner_suffix_map

\* C23: in the owner-to-suffix map an owner with a static override maps to the
\* upper-cased override whatever the snapshot holds; an owner without one
\* maps to the most frequent suffix of the owner's structured codes, the one
\* met first in snapshot order among equally frequent ones, and is absent
\* when the owner has no structured code.
C23_OwnerSuffix ==
  fn_out # Pending =>
    LET m == _build_owner_suffix_map(fn_df)
        config_map == _project_config.owner_suffix_map
    IN  /\ DOMAIN m \subseteq OwnersOf(fn_df)
        /\ \A o \in OwnersOf(fn_df) :
             IF o \in DOMAIN config_map
             THEN o \in DOMAIN m /\ m[o] = StrUpper(config_map[o])
             ELSE IF OwnerRows(fn_df, o) = {}
                  THEN o \notin DOMAIN m
                  ELSE o \in DOMAIN m /\ WinsFor(fn_df, o, m[o])

\* an owner without override whose suffixes JW and YG tie, JW met first, and
\* an owner whose override differs from the learned suffix
C23_Witness ==
  /\ fn_out # Pending
  /\ fn_df.columns = AllCols
  /\ fn_df.rows = <<Row(P0002_JW, Glob, BakYongGu), Row(G0001_YG, Glob, BakYongGu),
                    Row(P0002_JW, Neo, BakJeongU)>>
  /\ _project_config.owner_suffix_map = (BakJeongU :> <<"y", "g">>)
  /\ _build_owner_suffix_map(fn_df)[BakYongGu] = <<"J", "W">>
  /\ _build_owner_suffix_map(fn_df)[BakJeongU] = <<"Y", "G">>

\* the snapshot without the rows whose code does not satisfy WF
KeepRows(d, WF(_)) == Frame(d.columns, SelectSeq(d.rows, LAMBDA r : WF(r.code)))
\* the suffix builder strips the code before it matches
StructuredStripped(c) == StructuredCode(Strip(c))
\* the overrides as the suffix builder holds them
UpperOverrides ==
  [k \in DOMAIN _project_config.owner_suffix_map |->
     StrUpper(_project_config.owner_suffix_map[k])]

\* rows whose code fails WFp add nothing to the prefix map and the number,
\* rows whose code fails WFs nothing to the suffix map; without the columns
\* a builder reads, it yields the overrides alone, and the number is 1
\* without the code column
SkipContract(WFp(_), WFs(_)) ==
  fn_out # Pending =>
    /\ _build_company_prefix_map(fn_df) = _build_company_prefix_map(KeepRows(fn_df, WFp))
    /\ _build_owner_suffix_map(fn_df) = _build_owner_suffix_map(KeepRows(fn_df, WFs))
    /\ fn_num = _next_running_number(KeepRows(fn_df, WFp))
    /\ fn_num >= 1
    /\ ~({ColCode, ColComp} \subseteq fn_df.columns) =>
         _build_company_prefix_map(fn_df) = _project_config.company_prefix_map
    /\ ~({ColCode, ColOwner} \subseteq fn_df.columns) =>
         _build_owner_suffix_map(fn_df) = UpperOverrides
    /\ ColCode \notin fn_df.columns => fn_num = 1

\* C24 as claimed: the builders and the sequence computation skip every row
\* whose code is missing or malformed (not of the structured form): such rows
\* add nothing to the prefix map, the suffix map or the largest number; a
\* snapshot lacking a column yields only the overrides.
C24_SkipMalformed_Original == SkipContract(StructuredCode, StructuredCode)

\* C24 as amended: the prefix builder and the sequence computation skip the
\* rows whose code does not begin with an uppercase letter, four digits and a
\* hyphen; the suffix builder skips the rows whose stripped code is not of
\* the structured form.
C24_SkipMalformed == SkipContract(MatchPrefixPattern, StructuredStripped)

\* an empty code and a five-digit code before a structured one
C24_Witness ==
  /\ fn_out # Pending
  /\ fn_df.columns = AllCols
  /\ fn_df.rows = <<Row(<<>>, Glob, BakJeongU), Row(G10000_YG, Plant, BakJeongU),
                    Row(G0001_YG, Glob, BakYongGu)>>
  /\ fn_num = 2
  /\ BakJeongU \notin DOMAIN _build_owner_suffix_map(fn_df)

\* what a snapshot holds: its columns and, row by row, their cells
Content(d) ==
  [columns |-> d.columns,
   rows |-> [i \in DOMAIN d.rows |-> [c \in d.columns |-> d.rows[i][c]]]]
\* the sequence without its element k
Without(q, k) == SubSeq(q, 1, k - 1) \o SubSeq(q, k + 1, Len(q))
\* b is a with one row added
AddedRow(a, b) ==
  /\ ~a.none /\ ~b.none /\ a.columns = b.columns /\ a.columns # {}
  /\ \E k \in DOMAIN b.rows : Without(Content(b).rows, k) = Content(a).rows
\* b is a with its rows in another order
Reordered(a, b) ==
  /\ ~a.none /\ ~b.none /\ a.columns = b.columns /\ a.columns # {}
  /\ Len(a.rows) = Len(b.rows)
  /\ Content(a).rows # Content(b).rows
  /\ \A r \in Range(Content(a).rows) \cup Range(Content(b).rows) :
       Count(Content(a).rows, r) = Count(Content(b).rows, r)
\* b is a with one cell changed
ChangedCell(a, b) ==
  /\ ~a.none /\ ~b.none /\ a.columns = b.columns
  /\ Len(a.rows) = Len(b.rows)
  /\ Cardinality({ <<i, c>> \in (DOMAIN a.rows) \X a.columns :
                     a.rows[i][c] # b.rows[i][c] }) = 1

\* C25: _df_hash computed twice on a snapshot gives the same value, and,
\* Python's hash taken to be injective, two snapshots of which one is the
\* other with a row added, a row removed, the rows reordered or one cell
\* changed have different fingerprints; two snapshots with the same content
\* have the same.
C25_Fingerprint ==
  /\ \A i, j \in DOMAIN fn_hash : fn_hash[i] = fn_hash[j]
  /\ \A i \in DOMAIN fn_hash :
       /\ fn_hash[i].a = _df_hash(fn_df)
       /\ ( \/ AddedRow(fn_df, fn_other) \/ AddedRow(fn_other, fn_df)
            \/ Reordered(fn_df, fn_other) \/ ChangedCell(fn_df, fn_other) )
          => fn_hash[i].a # fn_hash[i].b
       /\ (~fn_df.none /\ ~fn_other.none /\ Content(fn_df) = Content(fn_other))
          => fn_hash[i].a = fn_hash[i].b

\* both calls have returned on two snapshots with the same two rows in
\* different order
C25_Witness ==
  /\ Len(fn_hash) = 2
  /\ fn_df = Frame(AllCols, <<Row(G0001_YG, Glob, BakYongGu), Row(P0002_JW, Plant, BakJeongU)>>)
  /\ fn_other = Frame(AllCols, <<Row(P0002_JW, Plant, BakJeongU), Row(G0001_YG, Glob, BakYongGu)>>)
  /\ fn_hash[1].a # fn_hash[1].b

\* C26: every code _auto_project_code returns has the structured form: one
\* uppercase letter, exactly four digits, the hyphen, one or more uppercase
\* letters.  The number is formatted with a minimum width of four, so with
\* 9999 in the snapshot the code carries the five digits of 10000.
C26_StructuredOutput ==
  (fn_out # Pending /\ fn_out.exc = "") => StructuredCode(fn_out.code)

\* the X-API-Key header is the configured key, which has eight characters
\* or more
KeyValid ==
  /\ Len(Strip(au_environ.API_KEY)) >= 8
  /\ au_headers.key = Strip(au_environ.API_KEY)
\* the request carries no valid key or no e-mail
Unauthenticated == ~KeyValid \/ Strip(au_headers.email) = <<>>
\* the e-mail is one of the configured admins, letter case aside
InAdminList(email) ==
  \E i \in DOMAIN au_environ.ADMIN_EMAILS :
    /\ Strip(au_environ.ADMIN_EMAILS[i]) # <<>>
    /\ StrLower(Strip(au_environ.ADMIN_EMAILS[i])) = StrLower(email)

\* C27: the resolved identity is empty exactly when the request is
\* unauthenticated (key invalid or e-mail empty) and is the stripped e-mail
\* otherwise; the admin flag is true only when the key is valid, the identity
\* is not empty and the identity is in the admin list (compared without
\* regard to letter case); an unauthenticated request is never admin.
C27_Resolve ==
  au_out.resolved =>
    /\ (au_out.identity = <<>>) <=> Unauthenticated
    /\ ~Unauthenticated => au_out.identity = Strip(au_headers.email)
    /\ au_out.admin =>
         (KeyValid /\ au_out.identity # <<>> /\ InAdminList(au_out.identity))
    /\ Unauthenticated => ~au_out.admin

\* a right key with the capitalised e-mail of an admin, and a wrong key with
\* the same e-mail, are both in the pools; this is the first
C27_Witness ==
  /\ au_out = Pair(<<"A">> \o Tail(AdminAtX), TRUE)
  /\ au_headers.key = Secret12
  /\ au_environ.API_KEY = <<" ">> \o Secret12 \o <<" ">>

\* the append of request t raises in this step
AppendFails(t) == bpc[t] = "append" /\ gsFails' = gsFails + 1 /\ bpc'[t] # bpc[t]
\* the codes in the rows of a frame
CodesIn(d) == { d.rows[i].code : i \in DOMAIN d.rows }
\* request t has been answered with an error after its code was built
FailedAppend(t) == bpc[t] = "done" /\ bresult[t].status = 500

\* C28: when the append of an auto-create request raises, the request is
\* answered with an error in that step and neither the sheet nor any client's
\* inbox changes; the request appends nothing afterwards, so the sheet holds
\* one row per successful request beside its first, and the code of the
\* failed request is in no frame that is stored or was sent.
C28_AppendFailure ==
  /\ [](\A t \in Threads :
          FailedAppend(t) =>
            /\ bcode[t] \notin CodesIn(sheet) \cup CodesIn(_cache_df)
            /\ \A s \in Sids : bcode[t] \notin CodesIn(inbox[s]))
  /\ [](Len(sheet.rows) = 1 + Cardinality({ t \in Threads : Succeeded(t) }))
  /\ [][\A t \in Threads :
          AppendFails(t) =>
            /\ bpc'[t] = "done" /\ bresult'[t].status = 500
            /\ UNCHANGED <<sheet, inbox, _cache_df, _cache_hash, ppc, p_todo>>]_vars

\* the append has raised and the poller has since fetched the sheet and found
\* it unchanged, with a client registered
C28_Witness ==
  /\ FailedAppend(1)
  /\ ppc = "sleep" /\ cycle.fetched /\ cycle.matched
  /\ _clients # <<>>

\* C29: in _safe_next_running_number_with_retry only a collision leads to
\* another attempt; an attempt that finds the mapping unresolved ends the
\* call with that error, with no sleep and no further load.  The code catches
\* every exception of an attempt and goes on to the next one unless the
\* attempt is the last.
C29_UnresolvedFailsAtOnce ==
  \A t \in Threads :
    (pc[t] = "release" /\ outcome[t].error = "MappingUnresolved")
      => outcome[t].how = "raise"

\* the load of this step returned a frame, and the code of t is not in it
LoadedAndPassed(t) ==
  \E r \in LoadResults :
    /\ ~r.ret.none
    /\ current_data' = r.cur
    /\ fetchFails' = fetchFails + (IF r.failed THEN 1 ELSE 0)
    /\ codeOf[t] \notin existing_codes(r.ret)

RowOfRequest(t) ==
  \E i \in DOMAIN fetch_dataframe.rows :
    /\ fetch_dataframe.rows[i].code = bcode[t]
    /\ fetch_dataframe.rows[i].comp = breq[t].company
    /\ fetch_dataframe.rows[i].owner = breq[t].owner

\* C31: once an auto-create request has reported success with a project
\* code, the data source holds the row the request appended: the next fetch
\* contains a row with that code and the submitted company and owner.
C31_SuccessMeansRow ==
  \A t \in Threads :
    (bpc[t] = "done" /\ bresult[t].status = 200) => RowOfRequest(t)

\* C32: allocation is monotonic across sequential requests: a request that
\* arrived after another had completed its append and answered ok gets a
\* code with a strictly larger sequence number, different from the earlier
\* code, whether or not a poll cycle ran in between.
C32_Monotonic ==
  \A a, b \in Threads :
    (a \in bafter[b] /\ bcode[b] # <<>>)
      => /\ _extract_number(bcode[b]) > _extract_number(bcode[a])
         /\ bcode[b] # bcode[a]

\* C33: the code computed from a snapshot is not among the codes of that
\* snapshot, also when the snapshot's largest number is 9999 or when it holds
\* a code with a five-digit number.  The number pattern reads exactly four
\* digits before the hyphen, so a five-digit code in the snapshot is not
\* counted and the code built after 9999 is that very code.
C33_CandidateIsNew ==
  (fn_out # Pending /\ fn_out.exc = "") => fn_out.code \notin existing_codes(fn_df)

\* Spec with the threads scheduled: a thread blocked on a lock that stays
\* free acquires it, and a thread inside the with block runs its attempt
\* and leaves the block.  Attempt(t) is enabled exactly when pc[t] is
\* "attempt" and every Attempt step leaves that position, so its weak
\* fairness is written as []<>(pc[t] # "attempt").
SpecFair ==
  Spec /\ \A t \in Threads : /\ WF_vars(Acquire(t))
                             /\ WF_vars(Release(t))
                             /\ []<>(pc[t] # "attempt")

\* thread t holds no lock object
HoldsNone(t) == \A l \in Threads : lockOwner[l] # t

\* C34: the allocation lock is released on every exit of an attempt: a
\* thread holds it only inside the with block, so after the call returned a
\* code or raised (mapping unresolved, load failure, exhaustion) and between
\* two attempts of one call it holds no lock; and a caller waiting for the
\* lock eventually enters.
C34_LockReleased ==
  /\ [](\A t \in Threads : ~InRegion(t) => HoldsNone(t))
  /\ \A t \in Threads : (pc[t] = "acquire") ~> (pc[t] = "attempt")

\* one call is between its second and third attempt after a failed load and
\* holds nothing, while the other call is inside the with block
C34_Witness ==
  /\ pc[1] = "with" /\ attempt[1] = 2 /\ HoldsNone(1)
  /\ pc[2] = "attempt" /\ lockOwner[myLock[2]] = 2

ValidAuth(data) == check_api_key(data.key) /\ Strip(data.email) # <<>>

\* C36: the registry holds only connections that are open and whose auth
\* event carried a valid API key and a non-empty identity; a connection that
\* closes is no longer in it; and a snapshot (from the poller or from the
\* subscribe handler) reaches a connection only while it is in the registry,
\* so never one whose authentication failed.
C36_Registry ==
  /\ [](\A s \in Range(_clients) : socket[s] = "open" /\ ValidAuth(authed[s]))
  /\ [][\A s \in Sids :
          /\ (socket[s] = "open" /\ socket'[s] = "closed") => s \notin Range(_clients')
          /\ (inbox'[s] # inbox[s] /\ ~inbox'[s].none)
               => (s \in Range(_clients) /\ ValidAuth(authed[s]))]_vars

\* one connection is registered and has been sent the stored frame, the
\* other was closed by an auth event with a wrong key and has been sent
\* nothing
C36_Witness ==
  \E a, b \in Sids :
    /\ _clients = <<a>> /\ socket[a] = "open" /\ inbox[a] = _cache_df
    /\ socket[b] = "closed" /\ authed[b].key = Secret13 /\ inbox[b].none

\* C37: for a key that has no entry, _should_send returns True and stamps
\* the key, whatever the clock and the duration.  The code takes the entry
\* of an absent key to be 0, the epoch, so the call returns False while the
\* clock is below the duration.
C37_AbsentKeySends ==
  \A i \in DOMAIN nlog :
    nlog[i].last = 0 => (nlog[i].ret /\ nlog[i].key \in DOMAIN _recent)

\* notify_missing_fields goes on to the sink for item j of the sequence of
\* reported items (the call of line 37 follows line 35)
SinkCalled(j) == nlog[j].posted # "none"

\* the key of item j is due: no sink call for it lies less than the
\* suppression duration before item j
Due(j) ==
  \A i \in DOMAIN nlog :
    (SameKey(i, j) /\ SinkCalled(i)) => nlog[j].at - nlog[i].at >= Window

C39_StoreFollowsSheet ==
  <>[](ppc = "off" \/ _cache_df = fetch_dataframe)

=============================================================================
